---- MODULE Spec2Model ----
(***************************************************************************)
(* State engine of the private balance ledger: the balance service (an     *)
(* SMT over derived keys plus the balance:* records of the key-value       *)
(* store), the transaction service (an SMT over bucket commitments plus    *)
(* the txdata:* records) and WalletService.transfer, which debits,         *)
(* credits and appends across both.                                        *)
(***************************************************************************)
EXTENDS Integers, Sequences, FiniteSets, TLC

(***************************************************************************)
(* JavaScript numbers.  The code does all money arithmetic on IEEE-754     *)
(* binary floating point (parseFloat, -, +, *, /, Math.floor).  A Number   *)
(* is modelled as an integer count of Eps = 2^-FracBits whose magnitude    *)
(* has at most MantBits significant bits; every operation computes the     *)
(* exact rational result and rounds it to the nearest such value, ties to  *)
(* even, as IEEE-754 does.  The source's width is 53 bits and its scale    *)
(* factor 10^18; the model keeps the arithmetic and shrinks both widths so *)
(* that the values fit TLC's integers.                                     *)
(***************************************************************************)
MantBits == 5

FracBits == 8

Unit == 2 ^ FracBits

\* PRECISION = BigInt(10 ** 18) in the source; one decimal digit here.
PRECISION == 10

RECURSIVE BitLen(_)
BitLen(n) == IF n = 0 THEN 0 ELSE 1 + BitLen(n \div 2)

\* The spacing of the representable values around a magnitude of n Eps.
Quantum(n) == IF BitLen(n) > MantBits THEN 2 ^ (BitLen(n) - MantBits) ELSE 1

\* num/den >= 0 rounded to the nearest multiple of q, ties to the even multiple.
RoundToMultiple(num, den, q) ==
  LET lo  == num \div (den * q)
      rem == num - lo * den * q
  IN  IF 2 * rem < den * q THEN lo * q
      ELSE IF 2 * rem > den * q THEN (lo + 1) * q
      ELSE IF lo % 2 = 0 THEN lo * q ELSE (lo + 1) * q

\* The Number nearest to the non-negative rational num/den (in Eps).
RoundMag(num, den) == RoundToMultiple(num, den, Quantum(num \div den))

\* The Number nearest to the rational num/den (in Eps), den > 0.
RoundF(num, den) == IF num >= 0 THEN RoundMag(num, den) ELSE 0 - RoundMag(0 - num, den)

\* A decimal string is the rational it denotes: num/den.
Dec(n, d) == [num |-> n, den |-> d]

\* parseFloat(s): the Number nearest to the decimal.
ParseFloat(s) == RoundF(s.num * Unit, s.den)

\* The decimal with k fractional digits nearest to the Number x >= 0.
NearestDecimal(x, k) == Dec(RoundToMultiple(x * 10 ^ k, Unit, 1), 10 ^ k)

RECURSIVE ShortestFrom(_, _)
\* The shortest decimal that parses back to the Number x >= 0, and of those
\* the nearest to x: the digits Number.prototype.toString prints.
ShortestFrom(x, k) ==
  IF k >= FracBits \/ ParseFloat(NearestDecimal(x, k)) = x THEN NearestDecimal(x, k)
  ELSE ShortestFrom(x, k + 1)

\* Number.prototype.toString: one decimal string per number.
NumToString(x) ==
  IF x >= 0 THEN ShortestFrom(x, 0)
  ELSE Dec(0 - ShortestFrom(0 - x, 0).num, ShortestFrom(0 - x, 0).den)

\* a - b and a + b on Numbers.
FSub(a, b) == RoundF(a - b, 1)

FAdd(a, b) == RoundF(a + b, 1)

\* Number(PRECISION)
NumPrecision == RoundF(PRECISION * Unit, 1)

\* Math.floor of a Number, as an integer.
MathFloor(x) == IF x >= 0 THEN x \div Unit ELSE 0 - ((0 - x + Unit - 1) \div Unit)

\* toHexBalance: BigInt(Math.floor(parseFloat(balance) * Number(PRECISION))),
\* written as a 64-digit hexadecimal; the leaf value is that integer.
ToHexBalance(balance) == MathFloor(RoundF(ParseFloat(balance) * NumPrecision, Unit))

\* Number(bigVal): the Number nearest to the integer.
BigToNumber(v) == RoundF(v * Unit, 1)

\* fromHexBalance: (Number(BigInt('0x' + value)) / Number(PRECISION)).toString()
FromHexBalance(value) == NumToString(RoundF(BigToNumber(value) * Unit, NumPrecision))

(***************************************************************************)
(* Strings.  A string is a sequence of chunks; the chunk ":" is the colon  *)
(* and no other chunk holds one, so that template strings and split(':')   *)
(* are computed as the code computes them.                                 *)
(***************************************************************************)
LowerChunk(c) == IF c = "0xA1" THEN "0xa1" ELSE c

\* String.prototype.toLowerCase
ToLowerCase(s) == [i \in DOMAIN s |-> LowerChunk(s[i])]

RECURSIVE SplitFrom(_, _, _)
SplitFrom(s, i, cur) ==
  IF i > Len(s) THEN <<cur>>
  ELSE IF s[i] = ":" THEN <<cur>> \o SplitFrom(s, i + 1, <<>>)
  ELSE SplitFrom(s, i + 1, Append(cur, s[i]))

\* s.split(':')
Split(s) == SplitFrom(s, 1, <<>>)

\* `balance:${wallet.toLowerCase()}:${token.toLowerCase()}`
BalanceDbKey(wallet, token) ==
  <<"balance", ":">> \o ToLowerCase(wallet) \o <<":">> \o ToLowerCase(token)

\* `txdata:${sender}:${receiver}:${token}:${type}`, the three lower-cased
TxDbKey(sender, receiver, token, type) ==
  <<"txdata", ":">> \o ToLowerCase(sender) \o <<":">> \o ToLowerCase(receiver)
    \o <<":">> \o ToLowerCase(token) \o <<":", type>>

\* The request strings the model draws from.  "0xA1" and "0xa1" are one
\* address in two spellings; the token <<"tk", ":", "x">> holds a colon.
WalletA == <<"0xa1">>

WalletAUpper == <<"0xA1">>

WalletB == <<"0xb2">>

WalletC == <<"0xc3">>

WalletD == <<"0xd4">>

TokenPlain == <<"tk">>

TokenColon == <<"tk", ":", "x">>

(***************************************************************************)
(* State.                                                                  *)
(***************************************************************************)
VARIABLES
  secrets,   \* secret store: the set of <<purpose, lower-cased wallet>> set
  db,        \* key-value store: db key -> stored value
  smt,       \* balance tree: leaf key -> leaf value
  txSmt,     \* transaction tree: leaf key -> bucket hash
  call,      \* per request slot: position and locals of WalletService.transfer
  now,       \* the clock Date.now() reads
  skipReceiverSecretCheck,  \* env.SKIP_RECEIVER_SECRET_CHECK
  pre,       \* history: the stores as they were when the running call began
  hist,      \* history: calls begun, balances at the first call, amounts sent and credited
  dialog,    \* DepositDialog: its state, refs, pending timers and transaction hooks
  tokensHook,  \* usePublicWalletTokens: its state and the fetches in flight
  route      \* discover-tokens route: the last request and its response

vars == <<secrets, db, smt, txSmt, call, now, skipReceiverSecretCheck, pre, hist,
          dialog, tokensHook, route>>

Procs == {1, 2}

MaxCalls == 2

MaxSets == 2

MaxTime == 1

Idle == [pc |-> "idle"]

Stores == [db |-> db, smt |-> smt, txSmt |-> txSmt]

\* The secret store (secret.service): one value per wallet and purpose.
SecretValue(purpose, wallet) == <<purpose, "secret", "of">> \o ToLowerCase(wallet)

HasSecret(purpose, wallet) == <<purpose, ToLowerCase(wallet)>> \in secrets

\* getBalanceSecret / getTxSecret: the secret, or <<>> for null
GetBalanceSecret(wallet) ==
  IF HasSecret("balance", wallet) THEN SecretValue("balance", wallet) ELSE <<>>

GetTxSecret(wallet) ==
  IF HasSecret("tx", wallet) THEN SecretValue("tx", wallet) ELSE <<>>

hasAllSecrets(wallet) == HasSecret("balance", wallet) /\ HasSecret("tx", wallet)

\* keccak256 of a byte string: injective, so the hash is its preimage, tagged.
Keccak(bytes) == <<"keccak">> \o bytes

\* Mutant: a key derived from the token alone.
generateKeyOfToken(wallet, token, userSecret) == Keccak(ToLowerCase(token))

\* generateKey: keccak256(concat([wallet.toLowerCase(), token.toLowerCase(), secret]))
generateKey(wallet, token, userSecret) ==
  Keccak(ToLowerCase(wallet) \o ToLowerCase(token) \o userSecret)

\* Mutant: a transaction key without the secret.
generateTxKeyOfPair(sender, receiver, token, userSecret) ==
  Keccak(ToLowerCase(sender) \o ToLowerCase(receiver) \o ToLowerCase(token))

\* generateTxKey
generateTxKey(sender, receiver, token, userSecret) ==
  Keccak(ToLowerCase(sender) \o ToLowerCase(receiver) \o ToLowerCase(token) \o userSecret)

\* hashTransactions: keccak256(JSON.stringify(transactions))
hashTransactions(transactions) == [keccakOfJson |-> transactions]

\* The SMT of @cedoor/smt as the code uses it: get, then update or add.
SmtHas(tree, key) == key \in DOMAIN tree

SmtPut(tree, key, value) ==
  [k \in DOMAIN tree \cup {key} |-> IF k = key THEN value ELSE tree[k]]

\* Mutant: a root that commits to the keys of the leaves, not to their values.
RootOfKeys(tree) == [rootOfLeaves |-> [k \in DOMAIN tree |-> 0], padded |-> tree # << >>]

\* smt.root: a commitment to the set of leaves, a 64-digit hash; the root of
\* an empty tree is the library's zero node, the one-character string '0'.
RootOf(tree) == [rootOfLeaves |-> tree, padded |-> tree # << >>]

\* normalize: strip 0x, pad to 64 characters
Normalize(hex) == [hex EXCEPT !.padded = TRUE]

getRoot == RootOf(smt)

getTxRoot == RootOf(txSmt)

DbPut(store, key, value) ==
  [k \in DOMAIN store \cup {key} |-> IF k = key THEN value ELSE store[k]]

\* getBalance: '0' without a secret or a leaf, else the decoded leaf.
getBalance(wallet, token) ==
  LET userSecret == GetBalanceSecret(wallet)
      key == generateKey(wallet, token, userSecret)
  IN  IF userSecret = <<>> THEN Dec(0, 1)
      ELSE IF SmtHas(smt, key) THEN FromHexBalance(smt[key]) ELSE Dec(0, 1)

\* The fixed-point balance a tree holds for (wallet, token): its leaf, 0 if none.
LeafOf(tree, wallet, token) ==
  LET key == generateKey(wallet, token, SecretValue("balance", wallet))
  IN  IF SmtHas(tree, key) THEN tree[key] ELSE 0

EmptyFn == [k \in {} |-> 0]

\* The byte order of the chunks the keys are made of.
ChunkRank(c) ==
  CASE c = "0xa1" -> 1 [] c = "0xb2" -> 2 [] c = "0xc3" -> 3 [] c = "0xd4" -> 4
    [] c = ":" -> 5 [] c = "balance" -> 6 [] c = "receiver" -> 7 [] c = "sender" -> 8
    [] c = "tk" -> 9 [] c = "txdata" -> 10 [] c = "x" -> 11 [] OTHER -> 0

RECURSIVE KeyLess(_, _)
\* The store's key order: bytewise, a proper prefix first.
KeyLess(a, b) ==
  IF a = <<>> THEN b # <<>>
  ELSE IF b = <<>> THEN FALSE
  ELSE IF Head(a) = Head(b) THEN KeyLess(Tail(a), Tail(b))
  ELSE ChunkRank(Head(a)) < ChunkRank(Head(b))

RECURSIVE InKeyOrder(_)
InKeyOrder(keys) ==
  IF keys = {} THEN <<>>
  ELSE LET first == CHOOSE k \in keys : \A other \in keys \ {k} : KeyLess(k, other)
       IN  <<first>> \o InKeyOrder(keys \ {first})

\* dbGetAll(prefix): the keys under the prefix 'balance:' or 'txdata:', in key order.
DbGetAll(store, prefix) ==
  InKeyOrder({k \in DOMAIN store : Len(k) >= 2 /\ k[1] = prefix /\ k[2] = ":"})

RECURSIVE LoadBalancesStopping(_, _, _)
\* Mutant: a loadFromDatabase that gives up at the first record without a secret.
LoadBalancesStopping(entries, i, tree) ==
  IF i > Len(entries) THEN tree
  ELSE LET parts == Split(entries[i])
           walletAddr == parts[2]
           tokenAddr == parts[3]
           balance == db[entries[i]]
           userSecret == GetBalanceSecret(walletAddr)
       IN  IF userSecret = <<>> THEN tree
           ELSE LoadBalancesStopping(entries, i + 1,
                                     SmtPut(tree, generateKey(walletAddr, tokenAddr, userSecret),
                                            ToHexBalance(balance)))

RECURSIVE LoadBalances(_, _, _)
\* loadFromDatabase: the loop over the entries, from entry i on.
LoadBalances(entries, i, tree) ==
  IF i > Len(entries) THEN tree
  ELSE LET parts == Split(entries[i])
           walletAddr == parts[2]
           tokenAddr == parts[3]
           balance == db[entries[i]]
           userSecret == GetBalanceSecret(walletAddr)
       IN  IF userSecret = <<>> THEN LoadBalances(entries, i + 1, tree)
           ELSE LoadBalances(entries, i + 1,
                             SmtPut(tree, generateKey(walletAddr, tokenAddr, userSecret),
                                    ToHexBalance(balance)))

\* Mutant: initializeBalanceService without `smt = new SMT(hash)`.
loadFromDatabaseIntoLiveTree == LoadBalances(DbGetAll(db, "balance"), 1, smt)

\* initializeBalanceService: a new SMT, filled by loadFromDatabase.
loadFromDatabase == LoadBalances(DbGetAll(db, "balance"), 1, EmptyFn)

RECURSIVE LoadTransactions(_, _, _)
\* loadTransactionsFromDatabase: the loop over the entries, from entry i on.
LoadTransactions(entries, i, tree) ==
  IF i > Len(entries) THEN tree
  ELSE LET parts == Split(entries[i])
           sender == parts[2]
           receiver == parts[3]
           token == parts[4]
           type == parts[5]
           wallet == IF type = <<"sender">> THEN sender ELSE receiver
           userSecret == GetTxSecret(wallet)
       IN  IF userSecret = <<>> THEN LoadTransactions(entries, i + 1, tree)
           ELSE LoadTransactions(entries, i + 1,
                                 SmtPut(tree, generateTxKey(sender, receiver, token, userSecret),
                                        hashTransactions(db[entries[i]])))

\* initializeTransactionService: a new SMT, filled from the txdata records.
loadTransactionsFromDatabase == LoadTransactions(DbGetAll(db, "txdata"), 1, EmptyFn)

\* Both services are initialised again from the store.
Reinitialize ==
  /\ \A p \in Procs : call[p].pc = "idle"
  /\ smt' = loadFromDatabase
  /\ txSmt' = loadTransactionsFromDatabase
  /\ UNCHANGED <<secrets, db, call, now, skipReceiverSecretCheck, pre, dialog, tokensHook, route>>

\* Process restart.
Restart == Reinitialize /\ UNCHANGED hist

\* Process restart, hist.rebuilt noting the store content it read and the
\* trees it built.
RestartNoted ==
  /\ Reinitialize
  /\ hist' = [hist EXCEPT !.rebuilt =
                [n |-> IF @.n < 2 THEN @.n + 1 ELSE @.n,
                 db |-> db, secrets |-> secrets, smt |-> smt', txSmt |-> txSmt',
                 again |-> /\ @.n > 0 /\ @.db = db /\ @.secrets = secrets
                           /\ (smt # @.smt \/ txSmt # @.txSmt)]]

\* hist.api: the answer of the last call of the balance service, the stores
\* as the call found them, and whether it repeats the call before it.
Answer(op, wallet, token, kind, error, value) ==
  [op |-> op, wallet |-> wallet, token |-> token, kind |-> kind, error |-> error,
   value |-> value, seen |-> Stores,
   again |-> /\ hist.api.op = op /\ hist.api.wallet = wallet /\ hist.api.token = token
             /\ hist.api.seen = Stores]

NoAnswer ==
  [op |-> "none", wallet |-> << >>, token |-> << >>, kind |-> "none", error |-> "",
   value |-> Dec(0, 1), seen |-> [db |-> EmptyFn, smt |-> EmptyFn, txSmt |-> EmptyFn],
   again |-> FALSE]

\* proof.sidenodes: the hashes beside the path to the key, which commit to
\* every other leaf of the tree.
Sidenodes(tree, key) == [k \in DOMAIN tree \ {key} |-> tree[k]]

\* getProof past its secret check
getProof(wallet, token) ==
  LET userSecret == GetBalanceSecret(wallet)
      key == generateKey(wallet, token, userSecret)
      balance == getBalance(wallet, token)
  IN  [root |-> Normalize(RootOf(smt)), siblings |-> Sidenodes(smt, key), key |-> key,
       value |-> ToHexBalance(balance)]

\* Mutant: a verifyProof that accepts membership proofs only.
verifyProofOfMember(proof) ==
  SmtHas(smt, proof.key) /\ Normalize(RootOf(smt)) = proof.root

\* verifyProof
verifyProof(proof) == Normalize(RootOf(smt)) = proof.root

\* getTxProof past its secret check; value is the leaf, or '0' without one
getTxProof(sender, receiver, token, forWallet) ==
  LET userSecret == GetTxSecret(forWallet)
      key == generateTxKey(sender, receiver, token, userSecret)
  IN  [root |-> Normalize(RootOf(txSmt)), siblings |-> Sidenodes(txSmt, key), key |-> key,
       value |-> IF SmtHas(txSmt, key) THEN [leaf |-> TRUE, hash |-> txSmt[key]]
                 ELSE [leaf |-> FALSE, hash |-> hashTransactions(<< >>)]]

\* verifyTxProof
verifyTxProof(proof) == Normalize(RootOf(txSmt)) = proof.root

\* ---------------------------------------------------------------------
\* The front end: its state after the first render.
MaxDeposits == 2

MaxTimers == 2

MaxRefresh == 2

\* DepositDialog after mount: useState / useRef initial values (lines 33-41),
\* both useWriteContract hooks idle, no timer pending.  approve and deposit
\* are "idle", "pending" (isPending), "confirming" (the receipt is awaited),
\* "success" (isSuccess of the receipt) or "error"; depositHash is 0 for
\* undefined; backendTimer is the hash its callback was set for, 0 for none.
DialogInit ==
  [open |-> FALSE, currentStep |-> 1, selected |-> FALSE, allowanceLow |-> FALSE,
   approve |-> "idle", deposit |-> "idle", depositHash |-> 0, deposits |-> 0,
   hasCalledOnSuccess |-> FALSE, cleanup |-> FALSE,
   approveTimers |-> 0, backendTimer |-> 0, closeTimer |-> FALSE, resetTimer |-> FALSE,
   closeResetTimers |-> 0,
   writes |-> 0, lastWrite |-> "none", error |-> FALSE,
   onSuccessCalls |-> [k \in 1..MaxDeposits |-> 0]]

\* usePublicWalletTokens before its first effect (lines 27-33).
HookInit ==
  [mounted |-> FALSE, jwt |-> FALSE, publicWalletAddress |-> FALSE, discoveredTokens |-> << >>,
   isDiscovering |-> FALSE, error |-> "null", refreshTrigger |-> 0,
   attempts |-> 0, outcome |-> [n \in 1..(MaxRefresh + 1) |-> "none"]]

\* No request served yet.
RouteInit == [served |-> FALSE]

InitWith(skips) ==
  /\ secrets = {}
  /\ db = EmptyFn
  /\ smt = EmptyFn
  /\ txSmt = EmptyFn
  /\ call = [p \in Procs |-> Idle]
  /\ now = 0
  /\ skipReceiverSecretCheck \in skips
  /\ pre = Stores
  /\ hist = [calls |-> 0, sets |-> 0, orig |-> EmptyFn, sent |-> EmptyFn, got |-> EmptyFn,
             rebuilt |-> [n |-> 0, db |-> EmptyFn, secrets |-> {}, smt |-> EmptyFn,
                          txSmt |-> EmptyFn, again |-> FALSE],
             api |-> NoAnswer,
             proof |-> [taken |-> FALSE, proof |-> getProof(<< >>, << >>), smt |-> EmptyFn]]
  /\ dialog = DialogInit
  /\ tokensHook = HookInit
  /\ route = RouteInit

\* deriveSecret: sets the secret of a wallet and purpose once.
Unlock(wallet, purpose) ==
  /\ <<purpose, ToLowerCase(wallet)>> \notin secrets
  /\ secrets' = secrets \cup {<<purpose, ToLowerCase(wallet)>>}
  /\ UNCHANGED <<db, smt, txSmt, call, now, skipReceiverSecretCheck, pre, hist, dialog, tokensHook, route>>

\* setBalance(wallet, token, balance); dbOk is whether dbPut succeeds.
setBalance(wallet, token, balance, dbOk) ==
  LET userSecret == GetBalanceSecret(wallet)
      key == generateKey(wallet, token, userSecret)
  IN  /\ hist.sets < MaxSets
      /\ hist' = [hist EXCEPT !.sets = @ + 1,
                              !.api = IF userSecret = << >>
                                        THEN Answer("setBalance", wallet, token, "error",
                                                    "User has not set balance secret", balance)
                                      ELSE IF ~dbOk
                                        THEN Answer("setBalance", wallet, token, "error",
                                                    "dbPut failed", balance)
                                      ELSE Answer("setBalance", wallet, token, "ok", "", balance)]
      /\ IF userSecret = <<>>
         THEN UNCHANGED <<smt, db>>
         ELSE /\ smt' = SmtPut(smt, key, ToHexBalance(balance))
              /\ db' = IF dbOk THEN DbPut(db, BalanceDbKey(wallet, token), balance) ELSE db
      /\ UNCHANGED <<secrets, txSmt, call, now, skipReceiverSecretCheck, pre, dialog, tokensHook, route>>

(***************************************************************************)
(* WalletService.transfer, one action per stretch of code between two      *)
(* awaits that reads or writes the stores.                                 *)
(***************************************************************************)
Rejected(p, req, error) ==
  [call EXCEPT ![p] = [pc |-> "done", req |-> req,
                       result |-> [kind |-> "error", error |-> error, at |-> "idle"]]]

Failed(p, error) ==
  [call EXCEPT ![p] = [pc |-> "done", req |-> call[p].req,
                       result |-> [kind |-> "error", error |-> error, at |-> call[p].pc]]]

\* Mutant: a schema without the format of the signature.
SchemaAcceptsAnySignature(req) == TRUE

\* transferSchema.parse: the addresses the model draws are well-formed, the
\* token and the amount are non-empty; the signature must be 0x-hexadecimal.
SchemaAccepts(req) == req.signature \in {"0xgood", "0xbad"}

\* verifyWalletSignature(from, signature, JSON.stringify(sendTransaction)).isValid
SignatureValid(req) == req.signature = "0xgood"

\* Mutant: the comparison without toLowerCase().
IsSelfTransferExactSpelling(req) == req.from = req.to

\* sendTransaction.from.toLowerCase() === sendTransaction.to.toLowerCase()
IsSelfTransfer(req) == ToLowerCase(req.from) = ToLowerCase(req.to)

\* Mutant: the receiver's secrets are never asked for.
ReceiverRefusedNever(req) == FALSE

\* Line 736: !env.SKIP_RECEIVER_SECRET_CHECK && !receiverHasSecrets
ReceiverRefused(req) == ~skipReceiverSecretCheck /\ ~hasAllSecrets(req.to)

\* Mutant: the signature is verified before the self-transfer test.
CallSignatureFirst(p, req, snap) ==
  /\ call[p].pc = "idle"
  /\ hist.calls < MaxCalls
  /\ hist' = [hist EXCEPT !.calls = @ + 1,
                          !.orig = IF hist.calls = 0 THEN smt ELSE @]
  /\ pre' = IF snap THEN Stores ELSE pre
  /\ call' =
       IF ~SchemaAccepts(req) THEN Rejected(p, req, "Validation")
       ELSE IF ~SignatureValid(req) THEN Rejected(p, req, "Invalid signature")
       ELSE IF IsSelfTransfer(req) THEN Rejected(p, req, "Cannot transfer to yourself")
       ELSE IF ~hasAllSecrets(req.from)
         THEN Rejected(p, req, "Sender has not set all required secrets")
       ELSE IF ReceiverRefused(req)
         THEN Rejected(p, req, "Receiver has not set all required secrets")
       ELSE [call EXCEPT ![p] = [pc |-> "getSenderBalance", req |-> req,
                                 receiverHasSecrets |-> hasAllSecrets(req.to)]]
  /\ UNCHANGED <<secrets, db, smt, txSmt, now, skipReceiverSecretCheck, dialog, tokensHook, route>>

\* Lines 710-738: validation, self-transfer, signature, secrets of both parties.
Call(p, req, snap) ==
  /\ call[p].pc = "idle"
  /\ hist.calls < MaxCalls
  /\ hist' = [hist EXCEPT !.calls = @ + 1,
                          !.orig = IF hist.calls = 0 THEN smt ELSE @]
  /\ pre' = IF snap THEN Stores ELSE pre
  /\ call' =
       IF ~SchemaAccepts(req) THEN Rejected(p, req, "Validation")
       ELSE IF IsSelfTransfer(req) THEN Rejected(p, req, "Cannot transfer to yourself")
       ELSE IF ~SignatureValid(req) THEN Rejected(p, req, "Invalid signature")
       ELSE IF ~hasAllSecrets(req.from)
         THEN Rejected(p, req, "Sender has not set all required secrets")
       ELSE IF ReceiverRefused(req)
         THEN Rejected(p, req, "Receiver has not set all required secrets")
       ELSE [call EXCEPT ![p] = [pc |-> "getSenderBalance", req |-> req,
                                 receiverHasSecrets |-> hasAllSecrets(req.to)]]
  /\ UNCHANGED <<secrets, db, smt, txSmt, now, skipReceiverSecretCheck, dialog, tokensHook, route>>

\* Lines 740-748: read the sender's balance, compare, compute the new one.
ReadSender(p) ==
  LET c == call[p]
      senderBalance == getBalance(c.req.from, c.req.token)
      amount == ParseFloat(c.req.amount)
      currentBalance == ParseFloat(senderBalance)
  IN  /\ c.pc = "getSenderBalance"
      /\ call' =
           IF currentBalance < amount THEN Failed(p, "Insufficient balance")
           ELSE [call EXCEPT ![p] = [pc |-> "updateSender", req |-> c.req,
                                     receiverHasSecrets |-> c.receiverHasSecrets,
                                     newBalance |-> NumToString(FSub(currentBalance, amount))]]
      /\ UNCHANGED <<secrets, db, smt, txSmt, now, skipReceiverSecretCheck, pre, hist, dialog, tokensHook, route>>

\* smt.add and smt.update take hexadecimal strings only: the digits of a
\* negative BigInt start with a minus sign, and the call throws on them
\* before the tree is touched.
SmtAccepts(value) == value >= 0

\* Mutant: an updateBalance that persists the record before it changes the leaf.
UpdateBalancePersistFirst(wallet, token, newBalance, dbOk) ==
  LET userSecret == GetBalanceSecret(wallet)
      key == generateKey(wallet, token, userSecret)
  IN  /\ db' = IF dbOk THEN DbPut(db, BalanceDbKey(wallet, token), newBalance) ELSE db
      /\ smt' = IF SmtAccepts(ToHexBalance(newBalance))
                  THEN SmtPut(smt, key, ToHexBalance(newBalance)) ELSE smt

\* updateBalance past its await: the leaf is changed, then dbPut is issued.
\* dbOk is whether the store accepts the write.
UpdateBalance(wallet, token, newBalance, dbOk) ==
  LET userSecret == GetBalanceSecret(wallet)
      key == generateKey(wallet, token, userSecret)
  IN  IF ~SmtAccepts(ToHexBalance(newBalance)) THEN UNCHANGED <<smt, db>>
      ELSE /\ smt' = SmtPut(smt, key, ToHexBalance(newBalance))
           /\ db' = IF dbOk THEN DbPut(db, BalanceDbKey(wallet, token), newBalance) ELSE db

\* Line 749: updateBalance(from, token, newSenderBalance).
WriteSender(p, dbOk) ==
  LET c == call[p]
  IN  /\ c.pc = "updateSender"
      /\ UpdateBalance(c.req.from, c.req.token, c.newBalance, dbOk)
      /\ call' =
           IF ~SmtAccepts(ToHexBalance(c.newBalance))
             THEN Failed(p, "Parameter must be a hexadecimal")
           ELSE IF ~dbOk THEN Failed(p, "dbPut failed")
           ELSE [call EXCEPT ![p] =
                   [pc |-> IF c.receiverHasSecrets THEN "getReceiverBalance" ELSE "return",
                    req |-> c.req, receiverHasSecrets |-> c.receiverHasSecrets]]
      /\ UNCHANGED <<secrets, txSmt, now, skipReceiverSecretCheck, pre, hist, dialog, tokensHook, route>>

\* Lines 752-753: read the receiver's balance and add the amount.
ReadReceiver(p) ==
  LET c == call[p]
      receiverBalance == getBalance(c.req.to, c.req.token)
      amount == ParseFloat(c.req.amount)
  IN  /\ c.pc = "getReceiverBalance"
      /\ call' = [call EXCEPT ![p] =
                    [pc |-> "updateReceiver", req |-> c.req,
                     receiverHasSecrets |-> c.receiverHasSecrets,
                     newBalance |-> NumToString(FAdd(ParseFloat(receiverBalance), amount))]]
      /\ UNCHANGED <<secrets, db, smt, txSmt, now, skipReceiverSecretCheck, pre, hist, dialog, tokensHook, route>>

\* hist.got: per (to, token), the amounts credited to the leaf so far.
CreditKey(to, token) == <<ToLowerCase(to), ToLowerCase(token)>>

Got(h, to, token) ==
  IF CreditKey(to, token) \in DOMAIN h.got THEN h.got[CreditKey(to, token)] ELSE 0

\* Line 754: updateBalance(to, token, newReceiverBalance).
WriteReceiver(p, dbOk) ==
  LET c == call[p]
  IN  /\ c.pc = "updateReceiver"
      /\ UpdateBalance(c.req.to, c.req.token, c.newBalance, dbOk)
      /\ call' =
           IF ~SmtAccepts(ToHexBalance(c.newBalance))
             THEN Failed(p, "Parameter must be a hexadecimal")
           ELSE IF ~dbOk THEN Failed(p, "dbPut failed")
           ELSE [call EXCEPT ![p] = [pc |-> "addTransaction", req |-> c.req,
                                     receiverHasSecrets |-> c.receiverHasSecrets]]
      /\ hist' = IF ~SmtAccepts(ToHexBalance(c.newBalance)) THEN hist
                 ELSE [hist EXCEPT !.got = DbPut(@, CreditKey(c.req.to, c.req.token),
                                                 Got(hist, c.req.to, c.req.token)
                                                   + c.req.amount.num)]
      /\ UNCHANGED <<secrets, txSmt, now, skipReceiverSecretCheck, pre, dialog, tokensHook, route>>

\* dbGet(dbKey), parsed: the stored bucket, or [] when there is none.
ReadBucket(dbKey) == IF dbKey \in DOMAIN db THEN db[dbKey] ELSE <<>>

\* Mutant: an addTransaction that asks for the sender's secret only.
AddTransactionBeginSenderOnly(p, tick) ==
  LET c == call[p]
      timestamp == now + tick
      newTx == [sender |-> c.req.from, receiver |-> c.req.to, token |-> c.req.token,
                amount |-> c.req.amount, timestamp |-> timestamp]
  IN  /\ c.pc \in {"addTransaction", "addTransactionDirect"}
      /\ timestamp <= MaxTime
      /\ now' = timestamp
      /\ call' =
           IF GetTxSecret(c.req.from) = <<>>
             THEN Failed(p, "Sender has not set transaction secret")
           ELSE [call EXCEPT ![p] =
                   [pc |-> "txWriteSender", req |-> c.req,
                    receiverHasSecrets |-> c.receiverHasSecrets, newTx |-> newTx,
                    direct |-> c.pc = "addTransactionDirect",
                    existing |-> ReadBucket(TxDbKey(c.req.from, c.req.to, c.req.token, "sender"))]]
      /\ UNCHANGED <<secrets, db, smt, txSmt, skipReceiverSecretCheck, pre, hist, dialog, tokensHook, route>>

\* addTransaction up to the first dbGet: Date.now(), both transaction
\* secrets, the new entry, and the read of the sender-side bucket.
AddTransactionBegin(p, tick) ==
  LET c == call[p]
      timestamp == now + tick
      newTx == [sender |-> c.req.from, receiver |-> c.req.to, token |-> c.req.token,
                amount |-> c.req.amount, timestamp |-> timestamp]
  IN  /\ c.pc \in {"addTransaction", "addTransactionDirect"}
      /\ timestamp <= MaxTime
      /\ now' = timestamp
      /\ call' =
           IF GetTxSecret(c.req.from) = <<>>
             THEN Failed(p, "Sender has not set transaction secret")
           ELSE IF GetTxSecret(c.req.to) = <<>>
             THEN Failed(p, "Receiver has not set transaction secret")
           ELSE [call EXCEPT ![p] =
                   [pc |-> "txWriteSender", req |-> c.req,
                    receiverHasSecrets |-> c.receiverHasSecrets, newTx |-> newTx,
                    direct |-> c.pc = "addTransactionDirect",
                    existing |-> ReadBucket(TxDbKey(c.req.from, c.req.to, c.req.token, "sender"))]]
      /\ UNCHANGED <<secrets, db, smt, txSmt, skipReceiverSecretCheck, pre, hist, dialog, tokensHook, route>>

\* Mutant: an updateTxLeaf that keeps the new record only.
UpdateTxLeafLastOnly(sender, receiver, token, type, userSecret, existing, newTx, dbOk) ==
  LET transactions == <<newTx>>
      smtKey == generateTxKey(sender, receiver, token, userSecret)
  IN  /\ txSmt' = SmtPut(txSmt, smtKey, hashTransactions(transactions))
      /\ db' = IF dbOk THEN DbPut(db, TxDbKey(sender, receiver, token, type), transactions)
               ELSE db

\* updateTxLeaf past its dbGet: push, change the leaf, then issue dbPut.
UpdateTxLeaf(sender, receiver, token, type, userSecret, existing, newTx, dbOk) ==
  LET transactions == Append(existing, newTx)
      smtKey == generateTxKey(sender, receiver, token, userSecret)
  IN  /\ txSmt' = SmtPut(txSmt, smtKey, hashTransactions(transactions))
      /\ db' = IF dbOk THEN DbPut(db, TxDbKey(sender, receiver, token, type), transactions)
               ELSE db

TxWriteSender(p, dbOk) ==
  LET c == call[p]
  IN  /\ c.pc = "txWriteSender"
      /\ UpdateTxLeaf(c.req.from, c.req.to, c.req.token, "sender",
                      GetTxSecret(c.req.from), c.existing, c.newTx, dbOk)
      /\ call' =
           IF ~dbOk THEN Failed(p, "dbPut failed")
           ELSE [call EXCEPT ![p] = [pc |-> "txReadReceiver", req |-> c.req,
                                     receiverHasSecrets |-> c.receiverHasSecrets,
                                     newTx |-> c.newTx, direct |-> c.direct]]
      /\ UNCHANGED <<secrets, smt, now, skipReceiverSecretCheck, pre, hist, dialog, tokensHook, route>>

\* updateTxLeaf for the receiver side: its dbGet.
TxReadReceiver(p) ==
  LET c == call[p]
  IN  /\ c.pc = "txReadReceiver"
      /\ call' = [call EXCEPT ![p] =
                    [pc |-> "txWriteReceiver", req |-> c.req,
                     receiverHasSecrets |-> c.receiverHasSecrets, newTx |-> c.newTx,
                     direct |-> c.direct,
                     existing |-> ReadBucket(TxDbKey(c.req.from, c.req.to, c.req.token, "receiver"))]]
      /\ UNCHANGED <<secrets, db, smt, txSmt, now, skipReceiverSecretCheck, pre, hist, dialog, tokensHook, route>>

TxWriteReceiver(p, dbOk) ==
  LET c == call[p]
  IN  /\ c.pc = "txWriteReceiver"
      /\ UpdateTxLeaf(c.req.from, c.req.to, c.req.token, "receiver",
                      GetTxSecret(c.req.to), c.existing, c.newTx, dbOk)
      /\ call' =
           IF ~dbOk THEN Failed(p, "dbPut failed")
           ELSE IF c.direct
             THEN [call EXCEPT ![p] =
                     [pc |-> "done", req |-> c.req,
                      result |-> [kind |-> "ok", op |-> "addTransaction",
                                  timestamp |-> c.newTx.timestamp]]]
           ELSE [call EXCEPT ![p] = [pc |-> "return", req |-> c.req,
                                     receiverHasSecrets |-> c.receiverHasSecrets]]
      /\ UNCHANGED <<secrets, smt, now, skipReceiverSecretCheck, pre, hist, dialog, tokensHook, route>>

\* hist.sent: per (from, to, token), the amounts of the transfers that
\* returned successfully.
Sent(h, from, to, token) ==
  LET k == <<ToLowerCase(from), ToLowerCase(to), ToLowerCase(token)>>
  IN  IF k \in DOMAIN h.sent THEN h.sent[k] ELSE 0

\* Mutant: the result carries the root of the transaction tree.
ReturnTxRoot(p) ==
  LET c == call[p]
      k == <<ToLowerCase(c.req.from), ToLowerCase(c.req.to), ToLowerCase(c.req.token)>>
  IN  /\ c.pc = "return"
      /\ call' = [call EXCEPT ![p] =
                    [pc |-> "done", req |-> c.req,
                     result |-> [kind |-> "ok", txHash |-> getTxRoot, from |-> c.req.from,
                                 to |-> c.req.to, token |-> c.req.token,
                                 amount |-> c.req.amount,
                                 credited |-> c.receiverHasSecrets]]]
      /\ hist' = [hist EXCEPT !.sent = DbPut(@, k, Sent(hist, c.req.from, c.req.to, c.req.token)
                                                    + c.req.amount.num)]
      /\ UNCHANGED <<secrets, db, smt, txSmt, now, skipReceiverSecretCheck, pre, dialog, tokensHook, route>>

\* Lines 766-774: txHash = getRoot() and the result.
Return(p) ==
  LET c == call[p]
      k == <<ToLowerCase(c.req.from), ToLowerCase(c.req.to), ToLowerCase(c.req.token)>>
  IN  /\ c.pc = "return"
      /\ call' = [call EXCEPT ![p] =
                    [pc |-> "done", req |-> c.req,
                     result |-> [kind |-> "ok", txHash |-> getRoot, from |-> c.req.from,
                                 to |-> c.req.to, token |-> c.req.token,
                                 amount |-> c.req.amount,
                                 credited |-> c.receiverHasSecrets]]]
      /\ hist' = [hist EXCEPT !.sent = DbPut(@, k, Sent(hist, c.req.from, c.req.to, c.req.token)
                                                    + c.req.amount.num)]
      /\ UNCHANGED <<secrets, db, smt, txSmt, now, skipReceiverSecretCheck, pre, dialog, tokensHook, route>>

\* The caller has its answer; the slot is free again.
Finish(p) ==
  /\ call[p].pc = "done"
  /\ call' = [call EXCEPT ![p] = Idle]
  /\ UNCHANGED <<secrets, db, smt, txSmt, now, skipReceiverSecretCheck, pre, hist, dialog, tokensHook, route>>

NoneRunning == \A p \in Procs : call[p].pc = "idle"

Request(from, to, token, amount, signature) ==
  [from |-> from, to |-> to, token |-> token, amount |-> amount, signature |-> signature]

(***************************************************************************)
(* Spec: requests served one at a time, the store accepting every write.   *)
(***************************************************************************)
SeqSenders == {WalletA, WalletAUpper, WalletB}

SeqReceivers == {WalletA, WalletB}

SeqAmounts == {Dec(n, PRECISION) : n \in {1, 33}}

SeqBalances == {Dec(n, PRECISION) : n \in {3, 32}}

Signatures == {"0xgood", "0xbad", "nothex"}

Init == InitWith({FALSE})

UnlockStep == \E w \in {WalletA, WalletB}, purpose \in {"balance", "tx"} : Unlock(w, purpose)

\* An unlock served between two transfer requests.
SeqUnlockStep ==
  \E w \in {WalletA, WalletB}, purpose \in {"balance", "tx"} :
     NoneRunning /\ Unlock(w, purpose)

SetBalanceStep ==
  \E w \in {WalletA, WalletB}, b \in SeqBalances :
     NoneRunning /\ hist.calls = 0 /\ setBalance(w, TokenPlain, b, TRUE)

CallStep ==
  \E from \in SeqSenders, to \in SeqReceivers, a \in SeqAmounts, sig \in Signatures :
     NoneRunning /\ Call(1, Request(from, to, TokenPlain, a, sig), TRUE)

TransferStep ==
  \E p \in Procs :
     \/ ReadSender(p)
     \/ WriteSender(p, TRUE)
     \/ ReadReceiver(p)
     \/ WriteReceiver(p, TRUE)
     \/ \E tick \in {0, 1} : AddTransactionBegin(p, tick)
     \/ TxWriteSender(p, TRUE)
     \/ TxReadReceiver(p)
     \/ TxWriteReceiver(p, TRUE)
     \/ Return(p)
     \/ Finish(p)

Next == SeqUnlockStep \/ SetBalanceStep \/ CallStep \/ TransferStep

Spec == Init /\ [][Next]_vars

(***************************************************************************)
(* Claims checked under Spec.                                              *)
(***************************************************************************)
Returned(p) == call[p].pc = "done"

Succeeded(p) == Returned(p) /\ call[p].result.kind = "ok"

FailedWith(p, error) ==
  Returned(p) /\ call[p].result.kind = "error" /\ call[p].result.error = error

\* The request got past validation, self-transfer, signature and secrets.
ReachedBalanceCheck(p) ==
  /\ Returned(p)
  /\ ~FailedWith(p, "Validation")
  /\ ~FailedWith(p, "Cannot transfer to yourself")
  /\ ~FailedWith(p, "Invalid signature")
  /\ ~FailedWith(p, "Sender has not set all required secrets")
  /\ ~FailedWith(p, "Receiver has not set all required secrets")

\* C1 (as claimed): when a transfer between two wallets holding all secrets
\* has returned successfully, the sender's balance is lower by exactly the
\* amount, the receiver's higher by exactly the amount, and their sum is what
\* it was before the call.
C1_Conservation ==
  \A p \in Procs :
     (Succeeded(p) /\ call[p].result.credited) =>
        LET r == call[p].req
            amount == r.amount.num
        IN  /\ LeafOf(smt, r.from, r.token) = LeafOf(pre.smt, r.from, r.token) - amount
            /\ LeafOf(smt, r.to, r.token) = LeafOf(pre.smt, r.to, r.token) + amount
            /\ LeafOf(smt, r.from, r.token) + LeafOf(smt, r.to, r.token)
                 = LeafOf(pre.smt, r.from, r.token) + LeafOf(pre.smt, r.to, r.token)

C5_InsufficientNoOp ==
  \A p \in Procs :
     (/\ ReachedBalanceCheck(p)
      /\ call[p].req.amount.num > LeafOf(pre.smt, call[p].req.from, call[p].req.token)) =>
        /\ FailedWith(p, "Insufficient balance")
        /\ Stores = pre

(***************************************************************************)
(* SpecConc: two requests in flight at once, their steps interleaving at   *)
(* the awaits; whole-unit amounts, on which the arithmetic is exact.       *)
(***************************************************************************)
ConcWallets == {WalletA, WalletB}

ConcAmounts == {Dec(10, PRECISION), Dec(20, PRECISION)}

ConcSetBalanceStep ==
  \E w \in ConcWallets, b \in ConcAmounts :
     hist.calls = 0 /\ setBalance(w, TokenPlain, b, TRUE)

ConcCallStep ==
  \E p \in Procs, from \in ConcWallets, to \in ConcWallets, a \in ConcAmounts :
     Call(p, Request(from, to, TokenPlain, a, "0xgood"), FALSE)

NextConc == UnlockStep \/ ConcSetBalanceStep \/ ConcCallStep \/ TransferStep

SpecConc == Init /\ [][NextConc]_vars

RECURSIVE SumOver(_, _, _)
\* The sum over the wallets in S of the balance the tree holds for the token.
SumOver(S, tree, token) ==
  IF S = {} THEN 0
  ELSE LET w == CHOOSE x \in S : TRUE
       IN  LeafOf(tree, w, token) + SumOver(S \ {w}, tree, token)

SentBy(w, token) == Sent(hist, w, WalletA, token) + Sent(hist, w, WalletB, token)

Quiescent == \A p \in Procs : call[p].pc \in {"idle", "done"}

\* C2 (as claimed): the amounts of the successful transfers out of a wallet
\* never add up to more than the balance it had when the first request was
\* issued plus what has been credited to it since.
C2_NoDoubleSpend ==
  \A w \in ConcWallets :
     SentBy(w, TokenPlain) <= LeafOf(hist.orig, w, TokenPlain) + Got(hist, w, TokenPlain)

\* C3 (as claimed): whenever no transfer is in flight, the balances of all
\* wallets add up to what they added up to before the first transfer began.
C3_ValueConserved ==
  (hist.calls > 0 /\ Quiescent) =>
     SumOver(ConcWallets, smt, TokenPlain) = SumOver(ConcWallets, hist.orig, TokenPlain)

(***************************************************************************)
(* SpecFail: requests served one at a time; the store may refuse a write   *)
(* (dbPut rejects), which the caller sees as a thrown error.               *)
(***************************************************************************)
FailWallets == {WalletA, WalletB}

FailAmounts == {Dec(10, PRECISION), Dec(20, PRECISION)}

FailSetBalanceStep ==
  \E w \in FailWallets, b \in FailAmounts, dbOk \in BOOLEAN :
     NoneRunning /\ hist.calls = 0 /\ setBalance(w, TokenPlain, b, dbOk)

FailCallStep ==
  \E from \in FailWallets, to \in FailWallets, a \in FailAmounts :
     NoneRunning /\ Call(1, Request(from, to, TokenPlain, a, "0xgood"), TRUE)

FailTransferStep ==
  \E p \in Procs :
     \/ ReadSender(p)
     \/ \E dbOk \in BOOLEAN : WriteSender(p, dbOk)
     \/ ReadReceiver(p)
     \/ \E dbOk \in BOOLEAN : WriteReceiver(p, dbOk)
     \/ \E tick \in {0, 1} : AddTransactionBegin(p, tick)
     \/ \E dbOk \in BOOLEAN : TxWriteSender(p, dbOk)
     \/ TxReadReceiver(p)
     \/ \E dbOk \in BOOLEAN : TxWriteReceiver(p, dbOk)
     \/ Return(p)
     \/ Finish(p)

NextFail == SeqUnlockStep \/ FailSetBalanceStep \/ FailCallStep \/ FailTransferStep

SpecFail == Init /\ [][NextFail]_vars

BucketLen(store, r, type) == Len(IF TxDbKey(r.from, r.to, r.token, type) \in DOMAIN store
                                 THEN store[TxDbKey(r.from, r.to, r.token, type)] ELSE <<>>)

\* C6 (as claimed): when a transfer has returned, either it succeeded and
\* the debit, the credit and the ledger append are all in the stores, or the
\* balance tree, the key-value store and the transaction tree are exactly as
\* they were before the call.
C6_AllOrNothing ==
  \A p \in Procs :
     Returned(p) =>
        \/ /\ Succeeded(p)
           /\ BucketLen(db, call[p].req, "sender") = BucketLen(pre.db, call[p].req, "sender") + 1
           /\ BucketLen(db, call[p].req, "receiver")
                = BucketLen(pre.db, call[p].req, "receiver") + 1
           /\ BalanceDbKey(call[p].req.from, call[p].req.token) \in DOMAIN db
           /\ BalanceDbKey(call[p].req.to, call[p].req.token) \in DOMAIN db
        \/ Stores = pre

\* C7 (as claimed): when a transfer has failed on a store write that came
\* after the sender's debit, the sender's balance is what it was before the
\* call.
C7_DebitCompensated ==
  \A p \in Procs :
     (/\ FailedWith(p, "dbPut failed")
      /\ call[p].result.at \in {"updateReceiver", "txWriteSender", "txWriteReceiver"}) =>
        LeafOf(smt, call[p].req.from, call[p].req.token)
          = LeafOf(pre.smt, call[p].req.from, call[p].req.token)

\* C8 (as claimed): in every state, each leaf of the balance tree is the
\* encoding of the balance record the key-value store holds for it, and each
\* leaf of the transaction tree is the hash of the bucket the store holds.
C8_DurableFirst ==
  /\ \A w \in FailWallets :
        LET key == generateKey(w, TokenPlain, SecretValue("balance", w))
        IN  SmtHas(smt, key) =>
              /\ BalanceDbKey(w, TokenPlain) \in DOMAIN db
              /\ smt[key] = ToHexBalance(db[BalanceDbKey(w, TokenPlain)])
  /\ \A s \in FailWallets, r \in FailWallets, type \in {"sender", "receiver"} :
        LET owner == IF type = "sender" THEN s ELSE r
            key == generateTxKey(s, r, TokenPlain, SecretValue("tx", owner))
        IN  SmtHas(txSmt, key) =>
              /\ TxDbKey(s, r, TokenPlain, type) \in DOMAIN db
              /\ txSmt[key] = hashTransactions(db[TxDbKey(s, r, TokenPlain, type)])

\* C9 (as claimed): whenever no write is in flight, for every wallet with a
\* balance secret the leaf at its derived key is the encoding of its balance
\* record, and there is no leaf where there is no record.
C9_TreeStoreAgreement ==
  Quiescent =>
     \A w \in FailWallets :
        HasSecret("balance", w) =>
           LET key == generateKey(w, TokenPlain, GetBalanceSecret(w))
               dbKey == BalanceDbKey(w, TokenPlain)
           IN  IF dbKey \in DOMAIN db
               THEN SmtHas(smt, key) /\ smt[key] = ToHexBalance(db[dbKey])
               ELSE ~SmtHas(smt, key)

(***************************************************************************)
(* SpecRestart: requests served one at a time, every write accepted, the   *)
(* process restarted between requests; tokens with and without a colon.    *)
(***************************************************************************)
RestartWallets == {WalletA, WalletB}

RestartTokens == {TokenPlain, TokenColon}

RestartAmounts == {Dec(10, PRECISION)}

RestartSetBalanceStep ==
  \E w \in RestartWallets, t \in RestartTokens, b \in {Dec(10, PRECISION), Dec(20, PRECISION)} :
     NoneRunning /\ hist.calls = 0 /\ setBalance(w, t, b, TRUE)

RestartCallStep ==
  \E from \in RestartWallets, to \in RestartWallets, t \in RestartTokens, a \in RestartAmounts :
     NoneRunning /\ Call(1, Request(from, to, t, a, "0xgood"), TRUE)

NextRestart ==
  SeqUnlockStep \/ RestartSetBalanceStep \/ RestartCallStep \/ TransferStep \/ Restart

SpecRestart == Init /\ [][NextRestart]_vars

\* C10 (as claimed): whenever no request is in flight, initialising the two
\* services again from the key-value store gives the balance root and the
\* transaction root the running services hold.
C10_RestartReconstructs ==
  Quiescent =>
     /\ RootOf(loadFromDatabase) = getRoot
     /\ RootOf(loadTransactionsFromDatabase) = getTxRoot
(***************************************************************************)
(* SpecRebuild: SpecFail with restarts; a refused write leaves the trees   *)
(* ahead of the store, a restart rebuilds them from the store.             *)
(***************************************************************************)
RebuildSetBalanceStep ==
  \E dbOk \in BOOLEAN :
     NoneRunning /\ hist.calls = 0 /\ setBalance(WalletA, TokenPlain, Dec(10, PRECISION), dbOk)

RebuildCallStep ==
  NoneRunning /\ Call(1, Request(WalletA, WalletB, TokenPlain, Dec(10, PRECISION), "0xgood"), TRUE)

RebuildRestartStep == hist.calls + hist.sets > 0 /\ RestartNoted

NextRebuild ==
  SeqUnlockStep \/ RebuildSetBalanceStep \/ RebuildCallStep \/ FailTransferStep
    \/ RebuildRestartStep

SpecRebuild == Init /\ [][NextRebuild]_vars

\* C11: a rebuild from a key-value store whose content (secrets, balance
\* records, txdata buckets) is what it was at the previous rebuild yields
\* the balance root and the transaction root of the previous rebuild.
C11_RebuildDeterministic ==
  [][(RestartNoted /\ hist.rebuilt.n > 0 /\ hist.rebuilt.db = db /\ hist.rebuilt.secrets = secrets)
       => (RootOf(smt') = RootOf(hist.rebuilt.smt) /\ RootOf(txSmt') = RootOf(hist.rebuilt.txSmt))]_vars

\* C11 witness: a second rebuild from an unchanged store has run while the
\* live trees differed from what the first rebuild had produced.
C11_Witness ==
  /\ hist.rebuilt.n >= 2
  /\ hist.rebuilt.again
  /\ hist.rebuilt.smt # EmptyFn

(***************************************************************************)
(* SpecService: calls of the balance service (getBalance, setBalance,      *)
(* updateBalance), one at a time.                                          *)
(***************************************************************************)
\* Mutant: a getBalance that adds a zero leaf where it finds none.
GetBalanceCallAddingLeaf(wallet, token) ==
  LET userSecret == GetBalanceSecret(wallet)
      key == generateKey(wallet, token, userSecret)
  IN  /\ hist' = [hist EXCEPT !.api = Answer("getBalance", wallet, token, "ok", "",
                                             getBalance(wallet, token))]
      /\ smt' = IF userSecret # << >> /\ ~SmtHas(smt, key) THEN SmtPut(smt, key, 0) ELSE smt
      /\ UNCHANGED <<secrets, db, txSmt, call, now, skipReceiverSecretCheck, pre, dialog, tokensHook, route>>

\* Mutant: a getBalance that throws without a secret, as getProof does.
GetBalanceCallThrowing(wallet, token) ==
  /\ hist' = [hist EXCEPT !.api =
                IF GetBalanceSecret(wallet) = << >>
                  THEN Answer("getBalance", wallet, token, "error",
                              "User has not set balance secret", Dec(0, 1))
                ELSE Answer("getBalance", wallet, token, "ok", "", getBalance(wallet, token))]
  /\ UNCHANGED <<secrets, db, smt, txSmt, call, now, skipReceiverSecretCheck, pre, dialog, tokensHook, route>>

\* BalanceService.getBalance(wallet, token)
GetBalanceCall(wallet, token) ==
  /\ hist' = [hist EXCEPT !.api = Answer("getBalance", wallet, token, "ok", "",
                                         getBalance(wallet, token))]
  /\ UNCHANGED <<secrets, db, smt, txSmt, call, now, skipReceiverSecretCheck, pre, dialog, tokensHook, route>>

\* Mutant: an updateBalance that always calls smt.add, which throws when the
\* key already has a leaf.
UpdateBalanceCallAddOnly(wallet, token, newBalance, dbOk) ==
  LET userSecret == GetBalanceSecret(wallet)
      key == generateKey(wallet, token, userSecret)
  IN  /\ hist.sets < MaxSets
      /\ hist' = [hist EXCEPT !.sets = @ + 1,
                              !.api = IF userSecret = << >>
                                        THEN Answer("updateBalance", wallet, token, "error",
                                                    "User has not set balance secret", newBalance)
                                      ELSE IF SmtHas(smt, key)
                                        THEN Answer("updateBalance", wallet, token, "error",
                                                    "Key already exists", newBalance)
                                      ELSE Answer("updateBalance", wallet, token, "ok", "",
                                                  newBalance)]
      /\ IF userSecret = << >> \/ SmtHas(smt, key)
         THEN UNCHANGED <<smt, db>>
         ELSE UpdateBalance(wallet, token, newBalance, dbOk)
      /\ UNCHANGED <<secrets, txSmt, call, now, skipReceiverSecretCheck, pre, dialog, tokensHook, route>>

\* BalanceService.updateBalance(wallet, token, newBalance)
UpdateBalanceCall(wallet, token, newBalance, dbOk) ==
  LET userSecret == GetBalanceSecret(wallet)
  IN  /\ hist.sets < MaxSets
      /\ hist' = [hist EXCEPT !.sets = @ + 1,
                              !.api = IF userSecret = << >>
                                        THEN Answer("updateBalance", wallet, token, "error",
                                                    "User has not set balance secret", newBalance)
                                      ELSE IF ~dbOk
                                        THEN Answer("updateBalance", wallet, token, "error",
                                                    "dbPut failed", newBalance)
                                      ELSE Answer("updateBalance", wallet, token, "ok", "",
                                                  newBalance)]
      /\ IF userSecret = << >>
         THEN UNCHANGED <<smt, db>>
         ELSE UpdateBalance(wallet, token, newBalance, dbOk)
      /\ UNCHANGED <<secrets, txSmt, call, now, skipReceiverSecretCheck, pre, dialog, tokensHook, route>>

\* BalanceService.getProof(wallet, token); hist.proof keeps the proof and
\* the tree it was made from.
GetProofCall(wallet, token) ==
  /\ hist' = IF GetBalanceSecret(wallet) = << >>
             THEN [hist EXCEPT !.api = Answer("getProof", wallet, token, "error",
                                              "User has not set balance secret", Dec(0, 1))]
             ELSE [hist EXCEPT !.api = Answer("getProof", wallet, token, "ok", "",
                                              getBalance(wallet, token)),
                               !.proof = [taken |-> TRUE, proof |-> getProof(wallet, token),
                                          smt |-> smt]]
  /\ UNCHANGED <<secrets, db, smt, txSmt, call, now, skipReceiverSecretCheck, pre, dialog, tokensHook, route>>

SvcWallets == {WalletA, WalletB}

SvcBalances == {Dec(3, PRECISION), Dec(10, PRECISION)}

SvcGetBalanceStep == \E w \in SvcWallets : NoneRunning /\ GetBalanceCall(w, TokenPlain)

SvcSetBalanceStep ==
  \E w \in SvcWallets, b \in SvcBalances :
     NoneRunning /\ setBalance(w, TokenPlain, b, TRUE)

SvcUpdateBalanceStep ==
  \E w \in SvcWallets, b \in SvcBalances :
     NoneRunning /\ UpdateBalanceCall(w, TokenPlain, b, TRUE)

NextService ==
  SeqUnlockStep \/ SvcGetBalanceStep \/ SvcSetBalanceStep \/ SvcUpdateBalanceStep

SpecService == Init /\ [][NextService]_vars

\* C12: a getBalance call changes neither the balance tree and its root nor
\* the key-value store nor the transaction tree, and a call that repeats the
\* call before it, the stores being as that call found them, returns the
\* value that call returned.
C12_IdempotentRead ==
  [][\A w \in SvcWallets :
        GetBalanceCall(w, TokenPlain) =>
           /\ smt' = smt /\ getRoot' = getRoot /\ db' = db /\ txSmt' = txSmt
           /\ (/\ hist.api.op = "getBalance" /\ hist.api.wallet = w
               /\ hist.api.token = TokenPlain /\ hist.api.seen = Stores)
                 => hist'.api.value = hist.api.value]_vars

\* C12 witness: getBalance has been called twice in a row for a wallet
\* whose leaf holds a balance.
C12_Witness ==
  /\ hist.api.op = "getBalance"
  /\ hist.api.again
  /\ hist.api.value.num > 0
  /\ LeafOf(smt, hist.api.wallet, hist.api.token) > 0

\* C13: a getBalance call raises no error; it returns '0' when the wallet
\* has no balance secret or the tree has no leaf at the derived key, and the
\* decoded leaf otherwise.
C13_GetBalanceValue ==
  hist.api.op = "getBalance" =>
     LET w == hist.api.wallet
         key == generateKey(w, hist.api.token, GetBalanceSecret(w))
         tree == hist.api.seen.smt
     IN  /\ hist.api.kind = "ok"
         /\ hist.api.value = IF ~HasSecret("balance", w) \/ ~SmtHas(tree, key) THEN Dec(0, 1)
                              ELSE FromHexBalance(tree[key])

\* C13 witness: getBalance has answered for a wallet without a balance
\* secret while the other wallet holds a balance.
C13_Witness ==
  /\ hist.api.op = "getBalance"
  /\ ~HasSecret("balance", hist.api.wallet)
  /\ \E w \in SvcWallets : LeafOf(smt, w, TokenPlain) > 0

\* C14: a setBalance or updateBalance call for a wallet without a balance
\* secret fails with the secret-missing error and leaves the balance tree,
\* its root and the key-value store as they were; for a wallet with the
\* secret, a decimal balance and a store that accepts the write, the call
\* succeeds whether or not the leaf existed, and the leaf and the record then
\* hold the balance.
C14_SetNeedsSecret ==
  [][\A w \in SvcWallets, b \in SvcBalances :
        (setBalance(w, TokenPlain, b, TRUE) \/ UpdateBalanceCall(w, TokenPlain, b, TRUE)) =>
           IF ~HasSecret("balance", w)
           THEN /\ hist'.api.kind = "error"
                /\ hist'.api.error = "User has not set balance secret"
                /\ smt' = smt /\ getRoot' = getRoot /\ db' = db
           ELSE /\ hist'.api.kind = "ok"
                /\ LeafOf(smt', w, TokenPlain) = ToHexBalance(b)
                /\ BalanceDbKey(w, TokenPlain) \in DOMAIN db'
                /\ db'[BalanceDbKey(w, TokenPlain)] = b]_vars

\* C14 witness: updateBalance has succeeded on a key that had a leaf, while
\* the other wallet has no balance secret.
C14_Witness ==
  /\ hist.api.op = "updateBalance"
  /\ hist.api.kind = "ok"
  /\ LeafOf(hist.api.seen.smt, hist.api.wallet, hist.api.token) > 0
  /\ \E w \in SvcWallets : ~HasSecret("balance", w)

(***************************************************************************)
(* SpecProof: balance proofs taken between balance writes and transfers    *)
(* served one at a time, the store accepting every write.                  *)
(***************************************************************************)
ProofWallets == {WalletA, WalletB}

ProofSetBalanceStep ==
  \E w \in ProofWallets :
     NoneRunning /\ hist.calls = 0 /\ setBalance(w, TokenPlain, Dec(10, PRECISION), TRUE)

ProofGetProofStep == \E w \in ProofWallets : NoneRunning /\ GetProofCall(w, TokenPlain)

ProofCallStep ==
  \E from \in ProofWallets, to \in ProofWallets :
     NoneRunning /\ Call(1, Request(from, to, TokenPlain, Dec(10, PRECISION), "0xgood"), TRUE)

NextProof ==
  SeqUnlockStep \/ ProofSetBalanceStep \/ ProofGetProofStep \/ ProofCallStep \/ TransferStep

SpecProof == Init /\ [][NextProof]_vars

\* C15: whenever no request is in flight, for every wallet with a balance
\* secret the proof getProof returns is accepted by verifyProof, with and
\* without a leaf at the wallet's key.
C15_ProofComplete ==
  Quiescent =>
     \A w \in ProofWallets, t \in {TokenPlain, TokenColon} :
        HasSecret("balance", w) => verifyProof(getProof(w, t))

\* C15 witness: no request in flight, both wallets with a balance secret,
\* one with a leaf and one without.
C15_Witness ==
  /\ Quiescent
  /\ HasSecret("balance", WalletA) /\ HasSecret("balance", WalletB)
  /\ SmtHas(smt, generateKey(WalletA, TokenPlain, GetBalanceSecret(WalletA)))
  /\ ~SmtHas(smt, generateKey(WalletB, TokenPlain, GetBalanceSecret(WalletB)))

\* C16 (as claimed): a proof returned by getProof or getTxProof is no longer
\* accepted by verifyProof or verifyTxProof once its value field or one of
\* its siblings is changed, root and key kept.
C16_TamperedRejected ==
  /\ \A w \in ProofWallets :
        HasSecret("balance", w) =>
           LET proof == getProof(w, TokenPlain)
           IN  /\ ~verifyProof([proof EXCEPT !.value = @ + 1])
               /\ ~verifyProof([proof EXCEPT !.siblings = SmtPut(@, <<"forged">>, 1)])
  /\ \A s \in ProofWallets, r \in ProofWallets :
        HasSecret("tx", s) =>
           LET proof == getTxProof(s, r, TokenPlain, s)
           IN  /\ ~verifyTxProof([proof EXCEPT !.value.hash = hashTransactions(<<"forged">>)])
               /\ ~verifyTxProof([proof EXCEPT !.siblings = SmtPut(@, <<"forged">>, 1)])

\* C17 (as claimed): after a write that changes the balance tree, a proof
\* getProof returned before the write is not accepted by verifyProof.
C17_StaleRejected ==
  [][(hist.proof.taken /\ hist'.proof = hist.proof /\ smt' # smt)
       => ~(verifyProof(hist.proof.proof))']_vars

\* C17 (amended): a proof getProof returned is not accepted by verifyProof
\* in any later state whose balance tree differs, in a leaf or in a leaf's
\* value, from the tree the proof was made from; it is accepted in a state
\* whose tree has the same leaves again.
C17_StaleRejectedWhileChanged ==
  hist.proof.taken => (verifyProof(hist.proof.proof) <=> smt = hist.proof.smt)

\* C17 witness: a proof was taken of a wallet's balance and a later write
\* has given that wallet's leaf another value.
C17_Witness ==
  /\ hist.proof.taken
  /\ \E w \in ProofWallets :
        /\ hist.proof.proof.key = generateKey(w, TokenPlain, GetBalanceSecret(w))
        /\ LeafOf(hist.proof.smt, w, TokenPlain) > 0
        /\ LeafOf(smt, w, TokenPlain) # LeafOf(hist.proof.smt, w, TokenPlain)

(***************************************************************************)
(* The ledger, checked under Spec, SpecConc and SpecFail.                  *)
(***************************************************************************)
\* The bucket a store holds under a key, empty when it holds none.
BucketIn(store, dbKey) == IF dbKey \in DOMAIN store THEN store[dbKey] ELSE << >>

\* C18: when a transfer between two wallets holding all secrets has
\* returned successfully, requests being served one at a time, the
\* sender-side and the receiver-side bucket of (from, to, token) are what
\* they were before the call with one record appended, the same record in
\* both, carrying the request's sender, receiver, token and amount string and
\* one timestamp, and both transaction-tree leaves are the hashes of the new
\* buckets; whenever no request is in flight the two buckets of a pair hold
\* the same list.
C18_LedgerAppend ==
  /\ \A p \in Procs :
        (Succeeded(p) /\ call[p].result.credited) =>
           LET r == call[p].req
               sKey == TxDbKey(r.from, r.to, r.token, "sender")
               rKey == TxDbKey(r.from, r.to, r.token, "receiver")
           IN  /\ \E timestamp \in 0..MaxTime :
                     LET record == [sender |-> r.from, receiver |-> r.to, token |-> r.token,
                                    amount |-> r.amount, timestamp |-> timestamp]
                     IN  /\ BucketIn(db, sKey) = Append(BucketIn(pre.db, sKey), record)
                         /\ BucketIn(db, rKey) = Append(BucketIn(pre.db, rKey), record)
               /\ txSmt[generateTxKey(r.from, r.to, r.token, GetTxSecret(r.from))]
                    = hashTransactions(BucketIn(db, sKey))
               /\ txSmt[generateTxKey(r.from, r.to, r.token, GetTxSecret(r.to))]
                    = hashTransactions(BucketIn(db, rKey))
  /\ Quiescent =>
        \A s \in SeqSenders, r \in SeqReceivers :
           BucketIn(db, TxDbKey(s, r, TokenPlain, "sender"))
             = BucketIn(db, TxDbKey(s, r, TokenPlain, "receiver"))

\* C18 witness: a second transfer of a pair has returned successfully, the
\* pair's buckets holding two records.
C18_Witness ==
  \E p \in Procs :
     /\ Succeeded(p) /\ call[p].result.credited
     /\ Len(BucketIn(db, TxDbKey(call[p].req.from, call[p].req.to, call[p].req.token,
                                  "sender"))) = 2
     /\ Len(BucketIn(db, TxDbKey(call[p].req.from, call[p].req.to, call[p].req.token,
                                  "receiver"))) = 2

\* s is an initial stretch of t.
IsPrefix(s, t) == Len(s) <= Len(t) /\ SubSeq(t, 1, Len(s)) = s

TxKeysOf(store) == {k \in DOMAIN store : k[1] = "txdata"}

\* C19 (as claimed): every persisted bucket keeps its records at their
\* positions in every later state of the store, appends to one bucket
\* interleaving or not, and when two transfers of one (sender, receiver,
\* token) have both returned successfully the pair's buckets hold two
\* records.
C19_AppendOnly ==
  /\ [][\A k \in TxKeysOf(db) : k \in DOMAIN db' /\ IsPrefix(db[k], db'[k])]_vars
  /\ []((/\ Succeeded(1) /\ Succeeded(2)
         /\ call[1].result.credited /\ call[2].result.credited
         /\ TxDbKey(call[1].req.from, call[1].req.to, call[1].req.token, "sender")
              = TxDbKey(call[2].req.from, call[2].req.to, call[2].req.token, "sender"))
          => /\ BucketLen(db, call[1].req, "sender") = 2
             /\ BucketLen(db, call[1].req, "receiver") = 2)

\* C20 (as claimed): whenever no request is in flight, for every persisted
\* bucket whose owning wallet has a transaction secret, the transaction
\* tree has a leaf at the bucket's key and the leaf is the hash of the whole
\* bucket the key-value store holds.
C20_BucketCommitment ==
  Quiescent =>
     \A s \in FailWallets, r \in FailWallets, type \in {"sender", "receiver"} :
        LET owner == IF type = "sender" THEN s ELSE r
            dbKey == TxDbKey(s, r, TokenPlain, type)
            key == generateTxKey(s, r, TokenPlain, GetTxSecret(owner))
        IN  (dbKey \in DOMAIN db /\ HasSecret("tx", owner)) =>
               /\ SmtHas(txSmt, key)
               /\ txSmt[key] = hashTransactions(db[dbKey])

(***************************************************************************)
(* SpecLedger: the transaction service called on its own, one call at a    *)
(* time: addTransaction, between two different wallets as transfer calls   *)
(* it, and getTransactionHistory.                                          *)
(***************************************************************************)
\* addTransaction(sender, receiver, token, amount) called by itself: the
\* call is accepted and runs from its first line.
AddTransactionCall(p, sender, receiver, token, amount) ==
  /\ call[p].pc = "idle"
  /\ hist.calls < MaxCalls
  /\ hist' = [hist EXCEPT !.calls = @ + 1]
  /\ pre' = Stores
  /\ call' = [call EXCEPT ![p] =
                [pc |-> "addTransactionDirect",
                 req |-> Request(sender, receiver, token, amount, ""),
                 receiverHasSecrets |-> TRUE]]
  /\ UNCHANGED <<secrets, db, smt, txSmt, now, skipReceiverSecretCheck, dialog, tokensHook, route>>

RECURSIVE CollectHistory(_, _, _)
\* getTransactionHistory: the loop over the entries, from entry i on.
CollectHistory(entries, i, walletLower) ==
  IF i > Len(entries) THEN <<>>
  ELSE LET parts == Split(entries[i])
           sender == parts[2]
           receiver == parts[3]
           type == parts[5]
           isSender == sender = walletLower /\ type = <<"sender">>
           isReceiver == receiver = walletLower /\ type = <<"receiver">>
       IN  (IF isSender \/ isReceiver THEN db[entries[i]] ELSE <<>>)
             \o CollectHistory(entries, i + 1, walletLower)

RECURSIVE SortNewestFirst(_, _)
\* history.sort((a, b) => b.timestamp - a.timestamp): a stable sort, so the
\* entries of one timestamp keep their order; t is the newest timestamp.
SortNewestFirst(history, t) ==
  IF t < 0 THEN <<>>
  ELSE SelectSeq(history, LAMBDA tx : tx.timestamp = t) \o SortNewestFirst(history, t - 1)

\* `${tx.sender}:${tx.receiver}:${tx.token}:${tx.timestamp}`
SeenKey(tx) ==
  tx.sender \o <<":">> \o tx.receiver \o <<":">> \o tx.token
    \o <<":", ToString(tx.timestamp)>>

RECURSIVE Unique(_, _)
\* history.filter: an entry whose key was seen before is dropped.
Unique(history, seen) ==
  IF history = <<>> THEN <<>>
  ELSE IF SeenKey(Head(history)) \in seen THEN Unique(Tail(history), seen)
  ELSE <<Head(history)>> \o Unique(Tail(history), seen \cup {SeenKey(Head(history))})

getTransactionHistory(wallet) ==
  Unique(SortNewestFirst(CollectHistory(DbGetAll(db, "txdata"), 1, ToLowerCase(wallet)),
                         MaxTime),
         {})

\* The call of getTransactionHistory and its answer.
GetTransactionHistoryCall(wallet) ==
  /\ hist' = [hist EXCEPT !.api = Answer("getTransactionHistory", wallet, << >>, "ok", "",
                                         getTransactionHistory(wallet))]
  /\ UNCHANGED <<secrets, db, smt, txSmt, call, now, skipReceiverSecretCheck, pre, dialog, tokensHook, route>>

LedgerWallets == {WalletA, WalletB}

LedgerAmounts == {Dec(1, PRECISION), Dec(10, PRECISION)}

LedgerUnlockStep == \E w \in LedgerWallets : NoneRunning /\ Unlock(w, "tx")

LedgerCallStep ==
  \E sender \in {WalletAUpper, WalletB}, receiver \in LedgerWallets \cup {WalletC},
     a \in LedgerAmounts :
     /\ NoneRunning
     /\ ToLowerCase(sender) # ToLowerCase(receiver)
     /\ AddTransactionCall(1, sender, receiver, TokenPlain, a)

LedgerAddStep ==
  \E p \in Procs :
     \/ \E tick \in {0, 1} : AddTransactionBegin(p, tick)
     \/ TxWriteSender(p, TRUE)
     \/ TxReadReceiver(p)
     \/ TxWriteReceiver(p, TRUE)
     \/ Finish(p)

LedgerHistoryStep ==
  \E w \in LedgerWallets : NoneRunning /\ GetTransactionHistoryCall(w)

NextLedger == LedgerUnlockStep \/ LedgerCallStep \/ LedgerAddStep \/ LedgerHistoryStep

SpecLedger == Init /\ [][NextLedger]_vars

\* addTransaction has returned its timestamp.
Added(p) ==
  Succeeded(p) /\ call[p].req.signature = ""

\* C21: when addTransaction has returned, it has failed with the
\* missing-secret error if the sender or the receiver has no transaction
\* secret, and then the key-value store (every bucket), the transaction
\* tree (every leaf, hence its root) and the balance tree are as they were
\* before the call; it has returned a timestamp only if both have one.
C21_AddNeedsBothSecrets ==
  \A p \in Procs :
     (Returned(p) /\ call[p].req.signature = "") =>
        IF ~HasSecret("tx", call[p].req.from)
          THEN FailedWith(p, "Sender has not set transaction secret") /\ Stores = pre
        ELSE IF ~HasSecret("tx", call[p].req.to)
          THEN FailedWith(p, "Receiver has not set transaction secret") /\ Stores = pre
        ELSE Added(p)

\* C21 witness: addTransaction has failed for a receiver without a
\* transaction secret while the sender has one and the ledger already holds
\* a record.
C21_Witness ==
  \E p \in Procs :
     /\ FailedWith(p, "Receiver has not set transaction secret")
     /\ HasSecret("tx", call[p].req.from)
     /\ TxKeysOf(db) # {}
     /\ txSmt # EmptyFn

\* A record of a transfer in which the wallet is the sender or the receiver.
Involves(tx, wallet) ==
  \/ ToLowerCase(tx.sender) = ToLowerCase(wallet)
  \/ ToLowerCase(tx.receiver) = ToLowerCase(wallet)

RECURSIVE TransfersOf(_, _, _)
\* The records of the wallet's transfers: addTransaction puts each transfer
\* in its sender-side bucket once.
TransfersOf(entries, i, wallet) ==
  IF i > Len(entries) THEN <<>>
  ELSE (IF entries[i][Len(entries[i])] = "sender"
          THEN SelectSeq(db[entries[i]], LAMBDA tx : Involves(tx, wallet))
        ELSE <<>>)
         \o TransfersOf(entries, i + 1, wallet)

CountOf(tx, history) == Cardinality({i \in DOMAIN history : history[i] = tx})

\* C22 (as claimed): the answer of getTransactionHistory(wallet), given
\* while no addTransaction is running, holds every record of a transfer
\* that has the wallet as sender or receiver exactly as often as that
\* transfer was made, none missing, and a newer record never after an
\* older one.
C22_HistoryComplete ==
  (hist.api.op = "getTransactionHistory" /\ hist.api.seen = Stores) =>
     LET history == hist.api.value
         made == TransfersOf(DbGetAll(db, "txdata"), 1, hist.api.wallet)
     IN  /\ Len(history) = Len(made)
         /\ \A i \in DOMAIN made : CountOf(made[i], history) = CountOf(made[i], made)
         /\ \A i, j \in DOMAIN history :
               i < j => history[i].timestamp >= history[j].timestamp

(***************************************************************************)
(* Strict mode, the default: Spec starts with SKIP_RECEIVER_SECRET_CHECK   *)
(* false.                                                                  *)
(***************************************************************************)
\* C23 (as claimed): in strict mode a transfer to a receiver that lacks the
\* balance secret or the transaction secret has failed with a
\* missing-secret error when it returns, and the stores are as they were
\* before the call.
C23_StrictAlwaysMissingSecret ==
  \A p \in Procs :
     (Returned(p) /\ ~skipReceiverSecretCheck /\ ~hasAllSecrets(call[p].req.to)) =>
        /\ \/ FailedWith(p, "Receiver has not set all required secrets")
           \/ FailedWith(p, "Sender has not set all required secrets")
        /\ Stores = pre

\* C23 (amended): in strict mode a transfer to a receiver that lacks the
\* balance secret or the transaction secret never succeeds and leaves the
\* balance tree, the transaction tree and the key-value store as they were
\* before the call; its error is the receiver's missing-secret error when
\* the request passes validation, is no self-transfer, carries a valid
\* signature and its sender holds all secrets, and the error of the first
\* of these checks that fails otherwise.
C23_StrictReceiverRefused ==
  \A p \in Procs :
     (Returned(p) /\ ~skipReceiverSecretCheck /\ ~hasAllSecrets(call[p].req.to)) =>
        LET req == call[p].req
        IN  /\ ~Succeeded(p)
            /\ Stores = pre
            /\ IF ~SchemaAccepts(req) THEN FailedWith(p, "Validation")
               ELSE IF IsSelfTransfer(req) THEN FailedWith(p, "Cannot transfer to yourself")
               ELSE IF ~SignatureValid(req) THEN FailedWith(p, "Invalid signature")
               ELSE IF ~hasAllSecrets(req.from)
                 THEN FailedWith(p, "Sender has not set all required secrets")
               ELSE FailedWith(p, "Receiver has not set all required secrets")

\* C23 witness: a transfer out of a funded wallet to a receiver that holds
\* the balance secret and lacks the transaction secret has been refused.
C23_Witness ==
  \E p \in Procs :
     /\ FailedWith(p, "Receiver has not set all required secrets")
     /\ HasSecret("balance", call[p].req.to)
     /\ ~HasSecret("tx", call[p].req.to)
     /\ LeafOf(smt, call[p].req.from, call[p].req.token) > 0

(***************************************************************************)
(* SpecLenient: the service started with SKIP_RECEIVER_SECRET_CHECK=true,  *)
(* requests served one at a time, the store accepting every write.         *)
(***************************************************************************)
InitLenient == InitWith({TRUE})

LenientWallets == {WalletA, WalletB}

LenientBalances == {Dec(3, PRECISION), Dec(10, PRECISION)}

LenientAmounts == {Dec(1, PRECISION), Dec(10, PRECISION)}

LenientSetBalanceStep ==
  \E w \in LenientWallets, b \in LenientBalances :
     NoneRunning /\ hist.calls = 0 /\ setBalance(w, TokenPlain, b, TRUE)

LenientCallStep ==
  \E from \in LenientWallets, to \in LenientWallets, a \in LenientAmounts :
     NoneRunning /\ Call(1, Request(from, to, TokenPlain, a, "0xgood"), TRUE)

NextLenient == SeqUnlockStep \/ LenientSetBalanceStep \/ LenientCallStep \/ TransferStep

SpecLenient == InitLenient /\ [][NextLenient]_vars

\* The record the store holds under a key, <<>> when it holds none.
RecordIn(store, dbKey) == IF dbKey \in DOMAIN store THEN <<store[dbKey]>> ELSE <<>>

\* C24 (as claimed): in lenient mode a transfer that passes validation,
\* self-transfer, signature and sender-secret checks, whose amount the
\* sender's balance covers and whose receiver lacks a secret, has succeeded
\* when it returns; the sender's balance is lower by exactly the amount, the
\* receiver's leaf and balance record are as before the call, and so are
\* every ledger bucket and the transaction tree.
C24_LenientDebitOnly ==
  \A p \in Procs :
     LET req == call[p].req
     IN  (/\ ReachedBalanceCheck(p)
          /\ skipReceiverSecretCheck
          /\ ~hasAllSecrets(req.to)
          /\ req.amount.num <= LeafOf(pre.smt, req.from, req.token)) =>
            /\ Succeeded(p)
            /\ LeafOf(smt, req.from, req.token)
                 = LeafOf(pre.smt, req.from, req.token) - req.amount.num
            /\ LeafOf(smt, req.to, req.token) = LeafOf(pre.smt, req.to, req.token)
            /\ RecordIn(db, BalanceDbKey(req.to, req.token))
                 = RecordIn(pre.db, BalanceDbKey(req.to, req.token))
            /\ \A k \in TxKeysOf(db) \cup TxKeysOf(pre.db) : RecordIn(db, k) = RecordIn(pre.db, k)
            /\ txSmt = pre.txSmt

(***************************************************************************)
(* The checks of transfer that come before the first balance read, under   *)
(* Spec.                                                                   *)
(***************************************************************************)
\* C25: when a transfer returns whose input is malformed, or whose input is
\* well-formed, no self-transfer and carries an invalid signature, or whose
\* signature is valid and whose sender lacks a secret, it has failed with
\* the validation, signature or sender-secret error respectively, and the
\* balance tree, the transaction tree (hence both roots) and every record
\* of the key-value store are as they were before the call.
C25_RejectedUntouched ==
  \A p \in Procs :
     LET req == call[p].req
     IN  Returned(p) =>
           /\ req.signature = "nothex" => FailedWith(p, "Validation")
           /\ (req.signature = "0xbad" /\ ~IsSelfTransfer(req)) =>
                 FailedWith(p, "Invalid signature")
           /\ (req.signature = "0xgood" /\ ~IsSelfTransfer(req) /\ ~hasAllSecrets(req.from)) =>
                 FailedWith(p, "Sender has not set all required secrets")
           /\ (\/ FailedWith(p, "Validation")
               \/ FailedWith(p, "Invalid signature")
               \/ FailedWith(p, "Sender has not set all required secrets")) =>
                 (Stores = pre /\ RootOf(smt) = RootOf(pre.smt)
                    /\ RootOf(txSmt) = RootOf(pre.txSmt))

\* C25 witness: a transfer with an invalid signature has been rejected
\* while the store and the balance tree hold the sender's balance.
C25_Witness ==
  \E p \in Procs :
     /\ FailedWith(p, "Invalid signature")
     /\ hasAllSecrets(call[p].req.from)
     /\ BalanceDbKey(call[p].req.from, call[p].req.token) \in DOMAIN db
     /\ LeafOf(smt, call[p].req.from, call[p].req.token) > 0

\* getBalance evaluated on a given balance tree.
BalanceIn(tree, wallet, token) ==
  LET userSecret == GetBalanceSecret(wallet)
      key == generateKey(wallet, token, userSecret)
  IN  IF userSecret = <<>> THEN Dec(0, 1)
      ELSE IF SmtHas(tree, key) THEN FromHexBalance(tree[key]) ELSE Dec(0, 1)

\* The error of the first check, in the order validation, self-transfer,
\* signature, sender secrets, receiver secrets (strict mode), balance, that
\* the request fails on a balance tree; "" when it passes all.
FirstFailureOn(tree, req) ==
  IF ~SchemaAccepts(req) THEN "Validation"
  ELSE IF IsSelfTransfer(req) THEN "Cannot transfer to yourself"
  ELSE IF ~SignatureValid(req) THEN "Invalid signature"
  ELSE IF ~hasAllSecrets(req.from) THEN "Sender has not set all required secrets"
  ELSE IF ~skipReceiverSecretCheck /\ ~hasAllSecrets(req.to)
    THEN "Receiver has not set all required secrets"
  ELSE IF ParseFloat(BalanceIn(tree, req.from, req.token)) < ParseFloat(req.amount)
    THEN "Insufficient balance"
  ELSE ""

\* That error on the balance tree before the call.
FirstFailure(req) == FirstFailureOn(pre.smt, req)

\* C28: when a transfer returns, it has failed with the error of the first
\* check it fails in the order validation, self-transfer, signature, sender
\* secrets, receiver secrets, balance, and it has succeeded when it fails
\* none.
C28_FailurePrecedence ==
  \A p \in Procs :
     Returned(p) =>
        IF FirstFailure(call[p].req) = "" THEN Succeeded(p)
        ELSE FailedWith(p, FirstFailure(call[p].req))

\* C28 witness: a self-transfer with an invalid signature has failed as a
\* self-transfer.
C28_Witness ==
  \E p \in Procs :
     /\ FailedWith(p, "Cannot transfer to yourself")
     /\ call[p].req.signature = "0xbad"

\* C28 witness of the second example: a sender without secrets and without
\* funds has failed with the sender's missing-secret error.
C28_WitnessNoSecretsNoFunds ==
  \E p \in Procs :
     /\ FailedWith(p, "Sender has not set all required secrets")
     /\ LeafOf(smt, call[p].req.from, call[p].req.token) < call[p].req.amount.num

(***************************************************************************)
(* SpecAmount: requests whose amount is a negative decimal, which the      *)
(* schema (amount: z.string().min(1)) lets through, next to positive ones; *)
(* served one at a time, the store accepting every write.                  *)
(***************************************************************************)
AmountWallets == {WalletA, WalletB}

AmountBalances == {Dec(10, PRECISION), Dec(20, PRECISION)}

AmountAmounts == {Dec(0 - 10, PRECISION), Dec(10, PRECISION)}

AmountSetBalanceStep ==
  \E w \in AmountWallets, b \in AmountBalances :
     NoneRunning /\ hist.calls = 0 /\ setBalance(w, TokenPlain, b, TRUE)

AmountCallStep ==
  \E from \in AmountWallets, to \in AmountWallets, a \in AmountAmounts :
     NoneRunning /\ Call(1, Request(from, to, TokenPlain, a, "0xgood"), TRUE)

NextAmount == SeqUnlockStep \/ AmountSetBalanceStep \/ AmountCallStep \/ TransferStep

SpecAmount == Init /\ [][NextAmount]_vars

\* No successful transfer has raised the sender's balance or lowered the
\* receiver's.
NoReverseFlow ==
  \A p \in Procs :
     LET req == call[p].req
     IN  Succeeded(p) =>
           /\ LeafOf(smt, req.from, req.token) <= LeafOf(pre.smt, req.from, req.token)
           /\ LeafOf(smt, req.to, req.token) >= LeafOf(pre.smt, req.to, req.token)

\* C26 (as claimed): when a transfer returns whose amount is not a positive
\* decimal, it has failed with the validation error and the stores are as
\* they were before the call; and when a transfer has succeeded, the
\* sender's balance is not higher and the receiver's not lower than before
\* the call.
C26_AmountValidated ==
  /\ \A p \in Procs :
        (Returned(p) /\ call[p].req.amount.num <= 0) =>
           (FailedWith(p, "Validation") /\ Stores = pre)
  /\ NoReverseFlow

(***************************************************************************)
(* SpecCodec: toHexBalance and fromHexBalance applied to every decimal     *)
(* string of up to MaxUnits units with as many fractional digits as        *)
(* PRECISION has, by setBalance and getBalance of one wallet.              *)
(***************************************************************************)
MaxUnits == 7

CodecBalances == {Dec(n, PRECISION) : n \in 0..(MaxUnits * PRECISION)}

CodecUnlockStep == Unlock(WalletA, "balance")

CodecSetBalanceStep == \E b \in CodecBalances : setBalance(WalletA, TokenPlain, b, TRUE)

CodecGetBalanceStep == GetBalanceCall(WalletA, TokenPlain)

NextCodec == CodecUnlockStep \/ CodecSetBalanceStep \/ CodecGetBalanceStep

SpecCodec == Init /\ [][NextCodec]_vars

\* Two decimal strings that denote one number ("1.0" and "1").
SameDecimal(x, y) == x.num * y.den = y.num * x.den

\* C27 (as claimed): for the balance x that setBalance stored,
\* fromHexBalance(toHexBalance(x)) denotes x, and the getBalance that
\* follows answers a string denoting x.
C27_CodecRoundTrip ==
  LET dbKey == BalanceDbKey(WalletA, TokenPlain)
  IN  (/\ hist.api.op = "getBalance"
       /\ hist.api.seen = Stores
       /\ HasSecret("balance", WalletA)
       /\ dbKey \in DOMAIN db) =>
         /\ SameDecimal(FromHexBalance(ToHexBalance(db[dbKey])), db[dbKey])
         /\ SameDecimal(hist.api.value, db[dbKey])

(***************************************************************************)
(* The result of a successful transfer, under Spec.                        *)
(***************************************************************************)
\* The balance transfer computes for the sender on a balance tree.
DebitedBalance(tree, req) ==
  NumToString(FSub(ParseFloat(BalanceIn(tree, req.from, req.token)), ParseFloat(req.amount)))

\* The balance transfer computes for the receiver on a balance tree.
CreditedBalance(tree, req) ==
  NumToString(FAdd(ParseFloat(BalanceIn(tree, req.to, req.token)), ParseFloat(req.amount)))

\* A balance tree with the sender's leaf set to the debited balance.
TreeDebitedFrom(tree, req) ==
  SmtPut(tree, generateKey(req.from, req.token, GetBalanceSecret(req.from)),
         ToHexBalance(DebitedBalance(tree, req)))

\* That tree with the receiver's leaf set to the credited balance.
TreeCreditedFrom(tree, req) ==
  SmtPut(TreeDebitedFrom(tree, req), generateKey(req.to, req.token, GetBalanceSecret(req.to)),
         ToHexBalance(CreditedBalance(TreeDebitedFrom(tree, req), req)))

\* The same, from the balance tree before the call.
TreeDebited(req) == TreeDebitedFrom(pre.smt, req)

TreeCredited(req) == TreeCreditedFrom(pre.smt, req)

UnlockOrder ==
  <<<<WalletA, "balance">>, <<WalletA, "tx">>, <<WalletB, "balance">>, <<WalletB, "tx">>,
    <<WalletC, "balance">>, <<WalletC, "tx">>, <<WalletD, "balance">>, <<WalletD, "tx">>>>

DisjointUnlockStep ==
  \E i \in DOMAIN UnlockOrder :
     /\ hist.calls = 0
     /\ Cardinality(secrets) = i - 1
     /\ Unlock(UnlockOrder[i][1], UnlockOrder[i][2])

DisjointBalances == {Dec(3, PRECISION), Dec(10, PRECISION)}

DisjointAmounts == {Dec(1, PRECISION), Dec(10, PRECISION)}

DisjointSetBalanceStep ==
  \E w \in {WalletA, WalletC}, b \in DisjointBalances :
     hist.calls = 0 /\ setBalance(w, TokenPlain, b, TRUE)

\* The first request notes the stores it found.
DisjointCallStep ==
  \E a \in DisjointAmounts :
     \/ Call(1, Request(WalletA, WalletB, TokenPlain, a, "0xgood"), hist.calls = 0)
     \/ Call(2, Request(WalletC, WalletD, TokenPlain, a, "0xgood"), hist.calls = 0)

DisjointTransferStep ==
  \E p \in Procs :
     \/ ReadSender(p)
     \/ WriteSender(p, TRUE)
     \/ ReadReceiver(p)
     \/ WriteReceiver(p, TRUE)
     \/ \E tick \in {0, 1} : AddTransactionBegin(p, tick)
     \/ TxWriteSender(p, TRUE)
     \/ TxReadReceiver(p)
     \/ TxWriteReceiver(p, TRUE)
     \/ Return(p)

NextDisjoint ==
  DisjointUnlockStep \/ DisjointSetBalanceStep \/ DisjointCallStep \/ DisjointTransferStep

SpecDisjoint == Init /\ [][NextDisjoint]_vars

\* A bucket without the timestamps of its records.
StripTime(bucket) ==
  [i \in DOMAIN bucket |-> [sender |-> bucket[i].sender, receiver |-> bucket[i].receiver,
                            token |-> bucket[i].token, amount |-> bucket[i].amount]]

\* What the claim compares: the balance tree (hence every balance and the
\* root), the balance records, and the buckets up to timestamps.
Outcome(tree, store) ==
  [smt |-> tree,
   balances |-> [k \in {k \in DOMAIN store : k[1] = "balance"} |-> store[k]],
   buckets |-> [k \in TxKeysOf(store) |-> StripTime(store[k])]]

\* One stripped record of the request appended to a bucket.
Appended(buckets, dbKey, req) ==
  DbPut(buckets, dbKey,
        Append(IF dbKey \in DOMAIN buckets THEN buckets[dbKey] ELSE <<>>,
               [sender |-> req.from, receiver |-> req.to, token |-> req.token,
                amount |-> req.amount]))

\* The outcome of a transfer served alone on an outcome o: nothing when a
\* check fails, else the debit, the credit and the two appends.
SeqTransfer(o, req) ==
  IF FirstFailureOn(o.smt, req) # "" THEN o
  ELSE [smt |-> TreeCreditedFrom(o.smt, req),
        balances |->
          DbPut(DbPut(o.balances, BalanceDbKey(req.from, req.token), DebitedBalance(o.smt, req)),
                BalanceDbKey(req.to, req.token),
                CreditedBalance(TreeDebitedFrom(o.smt, req), req)),
        buckets |->
          Appended(Appended(o.buckets, TxDbKey(req.from, req.to, req.token, "sender"), req),
                   TxDbKey(req.from, req.to, req.token, "receiver"), req)]

BothReturned == \A p \in Procs : Returned(p)

\* C30: when a transfer from A to B and a transfer from C to D have both
\* returned, however their steps were interleaved, the balance tree and its
\* root, the balance records and the buckets up to timestamps are those of
\* serving the first alone and then the second, and those of serving the
\* second alone and then the first, from the stores the first request
\* found; and each has succeeded exactly if it passes every check on those
\* stores.
C30_DisjointIndependent ==
  BothReturned =>
     LET start == Outcome(pre.smt, pre.db)
         r1 == call[1].req
         r2 == call[2].req
     IN  /\ Outcome(smt, db) = SeqTransfer(SeqTransfer(start, r1), r2)
         /\ Outcome(smt, db) = SeqTransfer(SeqTransfer(start, r2), r1)
         /\ RootOf(smt) = RootOf(SeqTransfer(SeqTransfer(start, r1), r2).smt)
         /\ \A p \in Procs : Succeeded(p) <=> FirstFailureOn(pre.smt, call[p].req) = ""

\* C30 witness: both transfers have succeeded, and one of them returned a
\* root that writes of the other have replaced since.
C30_Witness ==
  /\ BothReturned
  /\ \A p \in Procs : Succeeded(p)
  /\ \E p \in Procs : call[p].result.txHash # getRoot

(***************************************************************************)
(* SpecSnapshot: getProof and getAllBalances step by step, a balance write *)
(* running between their awaits.                                           *)
(***************************************************************************)
\* What getProof or getAllBalances was called with.
ReadRequest(op, wallet, token) == [op |-> op, wallet |-> wallet, token |-> token]

\* getProof up to `await getBalance(wallet, token)`: the secret, the key and
\* smt.createProof(key) on the tree as it is now.
GetProofBegin(p, wallet, token) ==
  LET userSecret == GetBalanceSecret(wallet)
      key == generateKey(wallet, token, userSecret)
      req == ReadRequest("getProof", wallet, token)
  IN  /\ call[p].pc = "idle"
      /\ call' = [call EXCEPT ![p] =
                    IF userSecret = <<>>
                    THEN [pc |-> "done", req |-> req,
                          result |-> [kind |-> "error",
                                      error |-> "User has not set balance secret",
                                      at |-> "idle"]]
                    ELSE [pc |-> "getProofBalance", req |-> req, key |-> key,
                          root |-> Normalize(RootOf(smt)),
                          siblings |-> Sidenodes(smt, key)]]
      /\ UNCHANGED <<secrets, db, smt, txSmt, now, skipReceiverSecretCheck, pre, hist, dialog, tokensHook, route>>

\* getProof from the answer of getBalance, which reads the leaf now, to its
\* return.
GetProofEnd(p) ==
  LET c == call[p]
  IN  /\ c.pc = "getProofBalance"
      /\ call' = [call EXCEPT ![p] =
                    [pc |-> "done", req |-> c.req,
                     result |-> [kind |-> "ok",
                                 proof |-> [root |-> c.root, siblings |-> c.siblings,
                                            key |-> c.key,
                                            value |-> ToHexBalance(getBalance(c.req.wallet,
                                                                              c.req.token))]]]]
      /\ UNCHANGED <<secrets, db, smt, txSmt, now, skipReceiverSecretCheck, pre, hist, dialog, tokensHook, route>>

\* dbGetAll(`balance:${wallet.toLowerCase()}:`): keys and values, in key order.
BalanceEntries(wallet) ==
  LET keys == InKeyOrder({k \in DOMAIN db :
                            /\ Len(k) >= 4
                            /\ SubSeq(k, 1, 2) = <<"balance", ":">>
                            /\ SubSeq(k, 3, 2 + Len(wallet)) = ToLowerCase(wallet)
                            /\ k[3 + Len(wallet)] = ":"})
  IN  [i \in DOMAIN keys |-> [key |-> keys[i], value |-> db[keys[i]]]]

\* getAllBalances up to the answer of dbGetAll.
GetAllBalancesBegin(p, wallet) ==
  /\ call[p].pc = "idle"
  /\ call' = [call EXCEPT ![p] =
                IF BalanceEntries(wallet) = <<>>
                THEN [pc |-> "done", req |-> ReadRequest("getAllBalances", wallet, <<>>),
                      result |-> [kind |-> "ok", balances |-> <<>>]]
                ELSE [pc |-> "allProof", req |-> ReadRequest("getAllBalances", wallet, <<>>),
                      entries |-> BalanceEntries(wallet), balances |-> <<>>]]
  /\ UNCHANGED <<secrets, db, smt, txSmt, now, skipReceiverSecretCheck, pre, hist, dialog, tokensHook, route>>

\* The getProof of the next entry, up to its await of getBalance;
\* token = entry.key.split(':')[2].
AllProofBegin(p) ==
  LET c == call[p]
      entry == c.entries[Len(c.balances) + 1]
      token == Split(entry.key)[3]
      userSecret == GetBalanceSecret(c.req.wallet)
      key == generateKey(c.req.wallet, token, userSecret)
  IN  /\ c.pc = "allProof"
      /\ call' = [call EXCEPT ![p] =
                    IF userSecret = <<>>
                    THEN [pc |-> "done", req |-> c.req,
                          result |-> [kind |-> "error",
                                      error |-> "User has not set balance secret",
                                      at |-> c.pc]]
                    ELSE [pc |-> "allProofBalance", req |-> c.req, entries |-> c.entries,
                          balances |-> c.balances, token |-> token, key |-> key,
                          root |-> Normalize(RootOf(smt)),
                          siblings |-> Sidenodes(smt, key)]]
      /\ UNCHANGED <<secrets, db, smt, txSmt, now, skipReceiverSecretCheck, pre, hist, dialog, tokensHook, route>>

\* That getProof from the answer of getBalance on; the item
\* {token, balance: entry.value, proof}; the return after the last entry.
AllProofEnd(p) ==
  LET c == call[p]
      entry == c.entries[Len(c.balances) + 1]
      item == [token |-> c.token, balance |-> entry.value,
               proof |-> [root |-> c.root, siblings |-> c.siblings, key |-> c.key,
                          value |-> ToHexBalance(getBalance(c.req.wallet, c.token))]]
      balances == Append(c.balances, item)
  IN  /\ c.pc = "allProofBalance"
      /\ call' = [call EXCEPT ![p] =
                    IF Len(balances) = Len(c.entries)
                    THEN [pc |-> "done", req |-> c.req,
                          result |-> [kind |-> "ok", balances |-> balances]]
                    ELSE [pc |-> "allProof", req |-> c.req, entries |-> c.entries,
                          balances |-> balances]]
      /\ UNCHANGED <<secrets, db, smt, txSmt, now, skipReceiverSecretCheck, pre, hist, dialog, tokensHook, route>>

SnapshotWallets == {WalletA, WalletB}

SnapshotBalances == {Dec(10, PRECISION), Dec(20, PRECISION)}

SnapshotUnlockStep == \E w \in SnapshotWallets : Unlock(w, "balance")

SnapshotSetBalanceStep ==
  \E w \in SnapshotWallets, b \in SnapshotBalances : setBalance(w, TokenPlain, b, TRUE)

SnapshotReadStep ==
  \E w \in SnapshotWallets :
     \/ GetProofBegin(1, w, TokenPlain)
     \/ GetProofEnd(1)
     \/ GetAllBalancesBegin(1, w)
     \/ AllProofBegin(1)
     \/ AllProofEnd(1)
     \/ Finish(1)

NextSnapshot == SnapshotUnlockStep \/ SnapshotSetBalanceStep \/ SnapshotReadStep

SpecSnapshot == Init /\ [][NextSnapshot]_vars

\* The leaf value a proof's root commits to at the proof's key, 0 if none.
LeafUnderRoot(proof) ==
  IF proof.key \in DOMAIN proof.root.rootOfLeaves THEN proof.root.rootOfLeaves[proof.key]
  ELSE 0

\* C31 (as claimed): the value of a proof that getProof has returned is the
\* leaf value of its key in the tree of its root, and every item that
\* getAllBalances has returned holds a balance that encodes to the value of
\* the item's proof.
C31_SnapshotConsistent ==
  \A p \in Procs :
     (Returned(p) /\ call[p].result.kind = "ok") =>
        /\ call[p].req.op = "getProof" =>
              call[p].result.proof.value = LeafUnderRoot(call[p].result.proof)
        /\ call[p].req.op = "getAllBalances" =>
              \A i \in DOMAIN call[p].result.balances :
                 ToHexBalance(call[p].result.balances[i].balance)
                   = call[p].result.balances[i].proof.value

(***************************************************************************)
(* SpecTxProof: addTransaction between A and B, one call at a time, and    *)
(* getTxProof asked for A, for B and for a third wallet C.                 *)
(***************************************************************************)
\* The call of getTxProof and its answer.
GetTxProofCall(sender, receiver, token, forWallet) ==
  /\ hist' = [hist EXCEPT !.api =
                IF GetTxSecret(forWallet) = <<>>
                THEN Answer("getTxProof", forWallet, token, "error",
                            "User has not set transaction secret",
                            [sender |-> sender, receiver |-> receiver])
                ELSE Answer("getTxProof", forWallet, token, "ok", "",
                            [sender |-> sender, receiver |-> receiver,
                             proof |-> getTxProof(sender, receiver, token, forWallet)])]
  /\ UNCHANGED <<secrets, db, smt, txSmt, call, now, skipReceiverSecretCheck, pre, dialog, tokensHook, route>>

TxProofWallets == {WalletA, WalletB, WalletC}

TxProofUnlockStep == \E w \in TxProofWallets : NoneRunning /\ Unlock(w, "tx")

TxProofAddStep ==
  \E sender \in {WalletAUpper, WalletB}, receiver \in {WalletA, WalletB} :
     /\ NoneRunning
     /\ ToLowerCase(sender) # ToLowerCase(receiver)
     /\ AddTransactionCall(1, sender, receiver, TokenPlain, Dec(10, PRECISION))

TxProofReadStep ==
  \E sender \in {WalletA, WalletB}, receiver \in {WalletA, WalletB}, w \in TxProofWallets :
     /\ NoneRunning
     /\ sender # receiver
     /\ GetTxProofCall(sender, receiver, TokenPlain, w)

NextTxProof == TxProofUnlockStep \/ TxProofAddStep \/ LedgerAddStep \/ TxProofReadStep

SpecTxProof == Init /\ [][NextTxProof]_vars

\* What getTxProof returns as value for a bucket: its hash, '0' for none.
CommitmentOf(store, dbKey) ==
  IF dbKey \in DOMAIN store THEN [leaf |-> TRUE, hash |-> hashTransactions(store[dbKey])]
  ELSE [leaf |-> FALSE, hash |-> hashTransactions(<< >>)]

\* C32: a getTxProof call for a forWallet without a transaction secret fails
\* with the secret-missing error; otherwise its key is derived from the
\* pair, the token and forWallet's transaction secret, its value is the
\* hash of the sender-side bucket of the pair when forWallet is the sender,
\* of the receiver-side bucket when forWallet is the receiver ('0' while
\* there is no such bucket), and when forWallet is neither, its value is
\* '0' and is the hash of neither party's bucket.
C32_OwnBucketOnly ==
  [][\A sender \in {WalletA, WalletB}, receiver \in {WalletA, WalletB}, w \in TxProofWallets :
        (sender # receiver /\ GetTxProofCall(sender, receiver, TokenPlain, w)) =>
           LET senderKey == TxDbKey(sender, receiver, TokenPlain, "sender")
               receiverKey == TxDbKey(sender, receiver, TokenPlain, "receiver")
               answer == hist'.api
           IN  IF ~HasSecret("tx", w)
               THEN /\ answer.kind = "error"
                    /\ answer.error = "User has not set transaction secret"
               ELSE /\ answer.kind = "ok"
                    /\ answer.value.proof.key
                         = generateTxKey(sender, receiver, TokenPlain, SecretValue("tx", w))
                    /\ w = sender => answer.value.proof.value = CommitmentOf(db, senderKey)
                    /\ w = receiver => answer.value.proof.value = CommitmentOf(db, receiverKey)
                    /\ (w # sender /\ w # receiver) =>
                          /\ ~answer.value.proof.value.leaf
                          /\ senderKey \in DOMAIN db =>
                                answer.value.proof.value # CommitmentOf(db, senderKey)
                          /\ receiverKey \in DOMAIN db =>
                                answer.value.proof.value # CommitmentOf(db, receiverKey)]_vars

\* C32 witness: a third wallet holding a transaction secret has been given
\* a proof for a pair whose buckets hold a record.
C32_Witness ==
  /\ hist.api.op = "getTxProof"
  /\ hist.api.kind = "ok"
  /\ hist.api.wallet = WalletC
  /\ hist.api.seen = Stores
  /\ TxDbKey(hist.api.value.sender, hist.api.value.receiver, TokenPlain, "sender") \in DOMAIN db

\* ---------------------------------------------------------------------
\* Rebuild on boot.  The key-value store outlives the process, so what a
\* boot finds in it is an input of the rebuild: SpecBoot draws the secrets
\* and the balance records and txdata buckets the store holds at boot, and
\* initializeBalanceService / initializeTransactionService run on them.
BootWallets == {WalletA, WalletB}

BootSecrets == SUBSET {<<purpose, ToLowerCase(w)>> : purpose \in {"balance", "tx"}, w \in BootWallets}

BootBalances == {Dec(10, PRECISION), Dec(20, PRECISION)}

\* The record addTransaction writes for a transfer from WalletA to WalletB.
BootTx ==
  [sender |-> WalletA, receiver |-> WalletB, token |-> TokenPlain,
   amount |-> Dec(10, PRECISION), timestamp |-> 1]

\* The store with a balance record for the wallets of `held` and the
\* buckets of the sides in `sides`.
BootStore(held, balance, sides) ==
  LET keys == {BalanceDbKey(w, TokenPlain) : w \in held}
                \cup {TxDbKey(WalletA, WalletB, TokenPlain, type) : type \in sides}
  IN  [k \in keys |-> IF k[1] = "balance" THEN balance ELSE <<BootTx>>]

InitBoot ==
  /\ secrets \in BootSecrets
  /\ \E held \in SUBSET BootWallets, balance \in BootBalances,
        sides \in SUBSET {"sender", "receiver"} :
        db = BootStore(held, balance, sides)
  /\ smt = EmptyFn
  /\ txSmt = EmptyFn
  /\ call = [p \in Procs |-> Idle]
  /\ now = 0
  /\ skipReceiverSecretCheck = FALSE
  /\ pre = [smt |-> EmptyFn, db |-> EmptyFn, txSmt |-> EmptyFn]
  /\ hist = [calls |-> 0, sets |-> 0, orig |-> EmptyFn, sent |-> EmptyFn, got |-> EmptyFn,
             rebuilt |-> [n |-> 0, db |-> EmptyFn, secrets |-> {}, smt |-> EmptyFn,
                          txSmt |-> EmptyFn, again |-> FALSE],
             api |-> NoAnswer,
             proof |-> [taken |-> FALSE, proof |-> getProof(<< >>, << >>), smt |-> EmptyFn]]
  /\ dialog = DialogInit
  /\ tokensHook = HookInit
  /\ route = RouteInit

BootStep == RestartNoted

NextBoot == BootStep

SpecBoot == InitBoot /\ [][NextBoot]_vars

\* The balance records and the buckets of the store whose owning wallet
\* (the bucket's side says which of the pair) holds the secret of its kind.
OwnedBalanceRecords ==
  {w \in BootWallets : BalanceDbKey(w, TokenPlain) \in DOMAIN db /\ HasSecret("balance", w)}

OwnedBuckets ==
  {type \in {"sender", "receiver"} :
     /\ TxDbKey(WalletA, WalletB, TokenPlain, type) \in DOMAIN db
     /\ HasSecret("tx", IF type = "sender" THEN WalletA ELSE WalletB)}

\* C33: after a rebuild on boot the balance tree holds, for every balance
\* record whose wallet has a balance secret, the leaf of that record under
\* the wallet's key, and no other leaf; the transaction tree holds, for
\* every bucket whose owning wallet has a transaction secret, the hash of
\* that bucket under the owner's key, and no other leaf.  Records without
\* a secret leave no leaf and do not stop the records after them.
C33_RebuildSkipsUnowned ==
  hist.rebuilt.n > 0 =>
    /\ DOMAIN smt = {generateKey(w, TokenPlain, SecretValue("balance", w)) : w \in OwnedBalanceRecords}
    /\ \A w \in OwnedBalanceRecords :
          smt[generateKey(w, TokenPlain, SecretValue("balance", w))]
            = ToHexBalance(db[BalanceDbKey(w, TokenPlain)])
    /\ DOMAIN txSmt =
         {generateTxKey(WalletA, WalletB, TokenPlain,
                        SecretValue("tx", IF type = "sender" THEN WalletA ELSE WalletB)) :
            type \in OwnedBuckets}
    /\ \A type \in OwnedBuckets :
          txSmt[generateTxKey(WalletA, WalletB, TokenPlain,
                              SecretValue("tx", IF type = "sender" THEN WalletA ELSE WalletB))]
            = hashTransactions(db[TxDbKey(WalletA, WalletB, TokenPlain, type)])

\* C33 witness: a rebuild has run on a store in which the first balance
\* record and the first bucket in key order belong to wallets without the
\* secret and the ones after them to wallets with it, and has left one
\* leaf in each tree.
C33_Witness ==
  /\ hist.rebuilt.n > 0
  /\ BalanceDbKey(WalletA, TokenPlain) \in DOMAIN db /\ ~HasSecret("balance", WalletA)
  /\ BalanceDbKey(WalletB, TokenPlain) \in DOMAIN db /\ HasSecret("balance", WalletB)
  /\ TxDbKey(WalletA, WalletB, TokenPlain, "receiver") \in DOMAIN db /\ ~HasSecret("tx", WalletB)
  /\ TxDbKey(WalletA, WalletB, TokenPlain, "sender") \in DOMAIN db /\ HasSecret("tx", WalletA)
  /\ Cardinality(DOMAIN smt) = 1
  /\ Cardinality(DOMAIN txSmt) = 1

\* ---------------------------------------------------------------------
\* C34: under transfers whose amounts pass transferSchema (negative ones
\* included), every balance record of the key-value store is a decimal not
\* below zero, and so is what getBalance returns for every wallet.
C34_NonNegativeBalances ==
  /\ \A k \in DOMAIN db : k[1] = "balance" => ParseFloat(db[k]) >= 0
  /\ \A w \in AmountWallets : ParseFloat(getBalance(w, TokenPlain)) >= 0

\* C34 witness: a transfer of a negative amount has passed the balance
\* check, raised the sender's record, and has been stopped at the
\* receiver's leaf, whose new value would have been below zero.
C34_Witness ==
  /\ call[1].pc = "done"
  /\ call[1].result.kind = "error"
  /\ call[1].result.error = "Parameter must be a hexadecimal"
  /\ call[1].req.amount.num < 0
  /\ BalanceDbKey(call[1].req.from, TokenPlain) \in DOMAIN db
  /\ ParseFloat(db[BalanceDbKey(call[1].req.from, TokenPlain)]) > 0

\* ---------------------------------------------------------------------
\* DepositDialog.  A step of the dialog is an event handler or a timer
\* callback together with the render and the effects that follow it.
ledgerVars == <<secrets, db, smt, txSmt, call, now, skipReceiverSecretCheck, pre, hist>>

isApprovePending(d) == d.approve = "pending"

isApproveConfirming(d) == d.approve = "confirming"

isApproveSuccess(d) == d.approve = "success"

isDepositPending(d) == d.deposit = "pending"

isDepositConfirming(d) == d.deposit = "confirming"

isDepositSuccess(d) == d.deposit = "success"

\* needsApproval: a token and an amount are chosen and the allowance is below the amount.
needsApproval(d) == d.selected /\ d.allowanceLow

Busy(d) ==
  isApprovePending(d) \/ isApproveConfirming(d) \/ isDepositPending(d) \/ isDepositConfirming(d)

OneMore(n) == IF n < MaxTimers THEN n + 1 ELSE n

\* The effect on [isApproveSuccess, currentStep]: setTimeout(..., 0) towards step 3.
ApproveEffect(before, d) ==
  IF /\ isApproveSuccess(d) # isApproveSuccess(before) \/ d.currentStep # before.currentStep
     /\ isApproveSuccess(d) /\ d.currentStep = 2
  THEN [d EXCEPT !.approveTimers = OneMore(@)]
  ELSE d

\* The effect on [isDepositSuccess]: the cleanup of its last run, then its body.
DepositEffect(before, d) ==
  IF isDepositSuccess(d) = isDepositSuccess(before) THEN d
  ELSE LET cleaned == IF d.cleanup
                        THEN [d EXCEPT !.backendTimer = 0, !.closeTimer = FALSE, !.cleanup = FALSE]
                        ELSE d
       IN  IF isDepositSuccess(cleaned) /\ ~cleaned.hasCalledOnSuccess
           THEN [cleaned EXCEPT !.hasCalledOnSuccess = TRUE, !.backendTimer = cleaned.depositHash,
                                !.closeTimer = TRUE, !.cleanup = TRUE]
           ELSE cleaned

\* The render after a state change, with the effects whose dependencies changed.
Render(d) ==
  /\ dialog' = DepositEffect(dialog, ApproveEffect(dialog, d))
  /\ UNCHANGED <<ledgerVars, tokensHook, route>>

resetApprove(d) == [d EXCEPT !.approve = "idle"]

resetDeposit(d) == [d EXCEPT !.deposit = "idle", !.depositHash = 0]

\* onOpenChange(isOpen), lines 213-232; the trigger opens a closed dialog,
\* Escape, the overlay and the close button close an open one.
onOpenChange(isOpen) ==
  IF isOpen
  THEN /\ ~dialog.open
       /\ Render([resetDeposit(resetApprove(dialog)) EXCEPT !.open = TRUE,
                                                            !.hasCalledOnSuccess = FALSE])
  ELSE /\ dialog.open
       /\ Render([dialog EXCEPT !.open = FALSE, !.closeResetTimers = OneMore(@)])

\* The callback of the 200 ms timer of onOpenChange(false), lines 222-230.
CloseResetTimerFires ==
  /\ dialog.closeResetTimers > 0
  /\ Render([resetDeposit(resetApprove(dialog)) EXCEPT
               !.closeResetTimers = @ - 1, !.currentStep = 1, !.selected = FALSE,
               !.error = FALSE, !.hasCalledOnSuccess = FALSE])

\* Step 1: a token and an amount within the balance are entered; allowanceLow
\* is whether the token's allowance is below the amount.
SelectToken(allowanceLow) ==
  /\ dialog.open /\ dialog.currentStep = 1
  /\ Render([dialog EXCEPT !.selected = TRUE, !.allowanceLow = allowanceLow])

\* handleApprove, lines 140-160
handleApprove(d) ==
  IF ~d.selected THEN [d EXCEPT !.error = TRUE]
  ELSE [d EXCEPT !.error = FALSE, !.approve = "pending",
                 !.writes = 1 - @, !.lastWrite = "approve"]

\* handleDeposit, lines 163-183
handleDeposit(d) ==
  IF ~d.selected THEN [d EXCEPT !.error = TRUE]
  ELSE [d EXCEPT !.error = FALSE, !.deposit = "pending", !.depositHash = 0,
                 !.writes = 1 - @, !.lastWrite = "deposit"]

\* The `disabled` of the main button, lines 657-668.
MainDisabled(d) ==
  \/ d.currentStep = 1 /\ ~d.selected
  \/ Busy(d)
  \/ isDepositSuccess(d)

\* The main button's onClick, lines 647-656.
ClickMain ==
  /\ dialog.open /\ ~MainDisabled(dialog)
  /\ dialog.currentStep = 3 /\ dialog.selected => dialog.deposits < MaxDeposits
  /\ Render(IF dialog.currentStep = 1
              THEN [dialog EXCEPT !.currentStep = IF needsApproval(dialog) THEN 2 ELSE 3]
            ELSE IF dialog.currentStep = 2 THEN handleApprove(dialog)
            ELSE handleDeposit(dialog))

\* The Back button's onClick, lines 623-632; rendered at steps 2 and 3,
\* disabled while a transaction is pending or confirming.
ClickBack ==
  /\ dialog.open /\ dialog.currentStep > 1 /\ ~Busy(dialog)
  /\ Render([resetDeposit(resetApprove(dialog)) EXCEPT
               !.error = FALSE,
               !.currentStep = IF dialog.currentStep = 2 THEN 1
                               ELSE IF needsApproval(dialog) THEN 2 ELSE 1])

\* The wallet and the chain answer the approve transaction.
ApproveAnswered ==
  \/ isApprovePending(dialog)
       /\ \E to \in {"confirming", "error"} : Render([dialog EXCEPT !.approve = to])
  \/ isApproveConfirming(dialog)
       /\ \E to \in {"success", "error"} : Render([dialog EXCEPT !.approve = to])

\* The wallet and the chain answer the deposit transaction; a signed
\* transaction gets the next hash.
DepositAnswered ==
  \/ isDepositPending(dialog)
       /\ \/ Render([dialog EXCEPT !.deposit = "confirming", !.deposits = @ + 1,
                                   !.depositHash = dialog.deposits + 1])
          \/ Render([dialog EXCEPT !.deposit = "error"])
  \/ isDepositConfirming(dialog)
       /\ \E to \in {"success", "error"} : Render([dialog EXCEPT !.deposit = to])

\* The callback of setTimeout(..., 0) of the approve effect, lines 96-99.
ApproveTimerFires ==
  /\ dialog.approveTimers > 0
  /\ Render([dialog EXCEPT !.approveTimers = @ - 1, !.currentStep = 3, !.error = FALSE])

\* Mutant: a callback that runs again and again (setInterval for setTimeout).
BackendTimerFiresRepeating ==
  /\ dialog.backendTimer # 0
  /\ dialog.onSuccessCalls[dialog.backendTimer] < 2
  /\ Render([dialog EXCEPT !.onSuccessCalls[dialog.backendTimer] = @ + 1])

\* The callback of the 3000 ms timer, lines 109-116: onSuccessRef.current().
BackendTimerFires ==
  /\ dialog.backendTimer # 0
  /\ Render([dialog EXCEPT !.backendTimer = 0,
                           !.onSuccessCalls[dialog.backendTimer] = @ + 1])

\* The callback of the 4500 ms timer, lines 119-130; it is set together
\* with the 3000 ms timer and cleared together with it, so it runs after it.
CloseTimerFires ==
  /\ dialog.closeTimer /\ dialog.backendTimer = 0
  /\ Render([dialog EXCEPT !.closeTimer = FALSE, !.open = FALSE, !.resetTimer = TRUE])

\* The callback of the 300 ms timer set by the close timer, lines 122-128.
ResetTimerFires ==
  /\ dialog.resetTimer
  /\ Render([dialog EXCEPT !.resetTimer = FALSE, !.currentStep = 1, !.selected = FALSE,
                           !.error = FALSE, !.hasCalledOnSuccess = FALSE])

DialogUserStep ==
  \/ \E isOpen \in BOOLEAN : onOpenChange(isOpen)
  \/ \E allowanceLow \in BOOLEAN : SelectToken(allowanceLow)
  \/ ClickMain
  \/ ClickBack

DialogChainStep == ApproveAnswered \/ DepositAnswered

DialogTimerStep ==
  \/ CloseResetTimerFires
  \/ ApproveTimerFires
  \/ BackendTimerFires
  \/ CloseTimerFires
  \/ ResetTimerFires

NextDialog == DialogUserStep \/ DialogChainStep \/ DialogTimerStep

SpecDialog == Init /\ [][NextDialog]_vars

\* The dialog stays mounted and the event loop runs every timer that is due.
SpecDialogFair ==
  /\ SpecDialog
  /\ WF_vars(CloseResetTimerFires)
  /\ WF_vars(ApproveTimerFires)
  /\ WF_vars(BackendTimerFires)
  /\ WF_vars(CloseTimerFires)
  /\ WF_vars(ResetTimerFires)

\* C35 (as claimed): while the dialog stays mounted and due timers run, a
\* confirmed deposit (isDepositSuccess true for its hash) is followed by a
\* call of onSuccess for that deposit, whatever the user does.
C35_OnSuccessEventually ==
  \A k \in 1..MaxDeposits :
     (isDepositSuccess(dialog) /\ dialog.depositHash = k) ~> (dialog.onSuccessCalls[k] > 0)

\* C36: onSuccess is called at most once for a deposit transaction.
C36_OnSuccessAtMostOnce ==
  \A k \in 1..MaxDeposits : dialog.onSuccessCalls[k] <= 1

\* C36 witness: onSuccess has been called for the first deposit, the dialog
\* has been reopened after its flag was reset, and a second deposit is
\* confirmed and has had its call too.
C36_Witness ==
  /\ dialog.onSuccessCalls[1] = 1
  /\ dialog.onSuccessCalls[2] = 1
  /\ dialog.open

\* C37 (as claimed): currentStep is 1, 2 or 3; step 3 is entered from step 1
\* when no approval is needed or from step 2 when the approve transaction
\* is confirmed; approve is written at step 2 and deposit at step 3 only,
\* and neither while a transaction is pending or confirming or after the
\* deposit has succeeded.
C37_StepMachine ==
  /\ [](dialog.currentStep \in {1, 2, 3})
  /\ [][(dialog'.currentStep = 3 /\ dialog.currentStep # 3) =>
          \/ dialog.currentStep = 1 /\ ~needsApproval(dialog)
          \/ dialog.currentStep = 2 /\ isApproveSuccess(dialog)]_vars
  /\ [][dialog'.writes # dialog.writes =>
          /\ dialog'.lastWrite = "approve" => dialog.currentStep = 2
          /\ dialog'.lastWrite = "deposit" => dialog.currentStep = 3
          /\ ~Busy(dialog)
          /\ ~isDepositSuccess(dialog)]_vars

\* ---------------------------------------------------------------------
\* usePublicWalletTokens.  jwt is whether the persisted auth token names a
\* wallet; publicWalletAddress is whether the state holds an address;
\* outcome[n] is "pending", "ok" or "failed" for the n-th discoverTokens.
NoErrorText == "null"

DiscoveryFailedText == "Failed to discover tokens"

\* The effect on [publicWalletAddress, refreshTrigger], lines 51-84, up to
\* the await of fetch: without an address the lists are cleared, with one
\* discoverTokens starts.
DiscoverEffect(h) ==
  IF ~h.publicWalletAddress THEN [h EXCEPT !.discoveredTokens = << >>]
  ELSE [h EXCEPT !.isDiscovering = TRUE, !.attempts = @ + 1,
                 !.outcome[h.attempts + 1] = "pending"]

\* The effect on [refreshTrigger], lines 36-48, and the render it causes
\* when the address it sets differs from the state's.
AddressEffect(h) ==
  IF h.jwt = h.publicWalletAddress THEN h
  ELSE DiscoverEffect([h EXCEPT !.publicWalletAddress = h.jwt])

HookStep(h) ==
  /\ tokensHook' = h
  /\ UNCHANGED <<ledgerVars, dialog, route>>

\* The first render and its effects.
HookMount ==
  /\ ~tokensHook.mounted
  /\ HookStep(AddressEffect(DiscoverEffect([tokensHook EXCEPT !.mounted = TRUE])))

\* The auth token is persisted or removed (sign-in, sign-out).
SetAuthToken(present) ==
  /\ tokensHook.jwt # present
  /\ HookStep([tokensHook EXCEPT !.jwt = present])

\* refresh(), lines 243-245, with the render and the effects that follow:
\* both effects depend on refreshTrigger.
refresh ==
  /\ tokensHook.mounted
  /\ tokensHook.refreshTrigger < MaxRefresh
  /\ HookStep(AddressEffect(DiscoverEffect([tokensHook EXCEPT !.refreshTrigger = @ + 1])))

DiscoveredLists == {<< >>, <<"0xusdc">>, <<"0xusdc", "0xeurc">>}

\* discoverTokens past its await, lines 65-80: the n-th fetch returns.  ok
\* is whether the response is ok and its body parses; otherwise the catch
\* block runs.
DiscoveryReturns(n, ok, tokens) ==
  /\ n \in 1..tokensHook.attempts
  /\ tokensHook.outcome[n] = "pending"
  /\ HookStep(IF ok
                THEN [tokensHook EXCEPT !.discoveredTokens = tokens, !.outcome[n] = "ok",
                                        !.isDiscovering = FALSE]
              ELSE [tokensHook EXCEPT !.discoveredTokens = << >>, !.outcome[n] = "failed",
                                      !.error = DiscoveryFailedText, !.isDiscovering = FALSE])

HookAuthStep == \E present \in BOOLEAN : SetAuthToken(present)

HookReturnStep ==
  \E n \in 1..(MaxRefresh + 1), ok \in BOOLEAN, tokens \in DiscoveredLists :
     DiscoveryReturns(n, ok, tokens)

NextHook == HookMount \/ HookAuthStep \/ refresh \/ HookReturnStep

SpecHook == Init /\ [][NextHook]_vars

\* Every fetch returns or throws.
SpecHookFair == SpecHook /\ WF_vars(HookReturnStep)

\* C39 (as claimed): when a discovery has failed and the discovery of the
\* refresh after it, the latest one, has succeeded, error becomes null.
C39_ErrorFollowsLatest ==
  \A n \in 1..MaxRefresh :
     (/\ tokensHook.attempts = n + 1
      /\ tokensHook.outcome[n] = "failed"
      /\ tokensHook.outcome[n + 1] = "ok") ~> (tokensHook.error = NoErrorText)

\* ---------------------------------------------------------------------
\* The discover-tokens route.  GET is a function of the request, the
\* environment and what the upstream call does.
MaxBalances == 2

\* USDC and EURC, lines 19-22.
FallbackTokens == <<"0x036CbD53842c5426634e7929541eC2318f3dCF7e",
                    "0x808456652fdb597867f38412077A9182bf77359F">>

\* searchParams.get('walletAddress'): null, '' or an address.
RouteWallets == {[present |-> FALSE, value |-> ""], [present |-> TRUE, value |-> ""],
                 [present |-> TRUE, value |-> "0xa1"]}

\* process.env.ALCHEMY_API_KEY: unset or set.
RouteKeys == {"", "key"}

\* tokenBalance of an entry: absent, '', '0x' followed by hexadecimal
\* digits (none, as in '0x', is no number) or a text that is no number.
Hex(digits) == [kind |-> "hex", digits |-> digits]

TokenBalances ==
  {[kind |-> "undefined"], [kind |-> "empty"], [kind |-> "text"],
   Hex(<< >>), Hex(<<0>>), Hex(<<0, 0>>), Hex(<<5>>), Hex(<<1, 0>>)}

RouteEntries ==
  {[contractAddress |-> c, tokenBalance |-> b] : c \in {"0xusdc", "0xdai"}, b \in TokenBalances}

RouteLists == UNION {[1..n -> RouteEntries] : n \in 0..MaxBalances}

\* What the call of the upstream API does: fetch throws, a response that is
\* not ok with its text, an ok response whose body does not parse, or an ok
\* response with its JSON: an error member, no result, or the tokenBalances.
Upstreams ==
  {[kind |-> "throws"], [kind |-> "badJson"], [kind |-> "error"], [kind |-> "noResult"]}
    \cup {[kind |-> "status", status |-> st, notEnabled |-> ne] :
            st \in {403, 500}, ne \in BOOLEAN}
    \cup {[kind |-> "result", tokenBalances |-> l] : l \in RouteLists}

RECURSIVE HexValue(_)
HexValue(digits) ==
  IF digits = << >> THEN 0
  ELSE 16 * HexValue(SubSeq(digits, 1, Len(digits) - 1)) + digits[Len(digits)]

\* BigInt(token.tokenBalance || "0"): the integer, or a SyntaxError.
BigIntOfBalance(b) ==
  IF b.kind \in {"undefined", "empty"} THEN [throws |-> FALSE, value |-> 0]
  ELSE IF b.kind = "hex" /\ b.digits # << >> THEN [throws |-> FALSE, value |-> HexValue(b.digits)]
  ELSE [throws |-> TRUE, value |-> 0]

RECURSIVE FilterPositive(_, _)
\* Lines 68-74: filter, then map to contractAddress; throws when BigInt does.
FilterPositive(entries, i) ==
  IF i > Len(entries) THEN [throws |-> FALSE, tokens |-> << >>]
  ELSE LET balance == BigIntOfBalance(entries[i].tokenBalance)
           rest == FilterPositive(entries, i + 1)
       IN  IF balance.throws \/ rest.throws THEN [throws |-> TRUE, tokens |-> << >>]
           ELSE IF balance.value > 0
             THEN [throws |-> FALSE, tokens |-> <<entries[i].contractAddress>> \o rest.tokens]
           ELSE rest

Json(status, body) == [status |-> status, body |-> body]

\* Mutant: a handler whose catch block answers 500 instead of the fallback list.
GETFailing(wallet, key, upstream) ==
  IF ~wallet.present \/ wallet.value = ""
    THEN Json(400, [error |-> "walletAddress parameter is required"])
  ELSE IF key = "" THEN Json(200, [tokens |-> FallbackTokens])
  ELSE IF upstream.kind = "status" /\ upstream.status = 403 /\ upstream.notEnabled
    THEN Json(200, [tokens |-> FallbackTokens])
  ELSE IF upstream.kind \in {"throws", "status", "badJson", "error"}
    THEN Json(500, [error |-> "Internal Server Error"])
  ELSE IF upstream.kind = "noResult" THEN Json(200, [tokens |-> << >>])
  ELSE LET filtered == FilterPositive(upstream.tokenBalances, 1)
       IN  IF filtered.throws THEN Json(500, [error |-> "Internal Server Error"])
           ELSE Json(200, [tokens |-> filtered.tokens])

\* GET, lines 4-88
GET(wallet, key, upstream) ==
  IF ~wallet.present \/ wallet.value = ""
    THEN Json(400, [error |-> "walletAddress parameter is required"])
  ELSE IF key = "" THEN Json(200, [tokens |-> FallbackTokens])
  ELSE IF upstream.kind = "status" /\ upstream.status = 403 /\ upstream.notEnabled
    THEN Json(200, [tokens |-> FallbackTokens])
  ELSE IF upstream.kind \in {"throws", "status", "badJson", "error"}
    THEN Json(200, [tokens |-> FallbackTokens])
  ELSE IF upstream.kind = "noResult" THEN Json(200, [tokens |-> << >>])
  ELSE LET filtered == FilterPositive(upstream.tokenBalances, 1)
       IN  IF filtered.throws THEN Json(200, [tokens |-> FallbackTokens])
           ELSE Json(200, [tokens |-> filtered.tokens])

\* A request is served; the handler keeps no state from one request to the
\* next, so one request stands for each.
RouteGet ==
  /\ ~route.served
  /\ \E wallet \in RouteWallets, key \in RouteKeys, upstream \in Upstreams :
        route' = [served |-> TRUE, wallet |-> wallet, key |-> key, upstream |-> upstream,
                  response |-> GET(wallet, key, upstream)]
  /\ UNCHANGED <<ledgerVars, dialog, tokensHook>>

NextRoute == RouteGet

SpecRoute == Init /\ [][NextRoute]_vars

\* The balance is a number above zero.
Positive(entry) ==
  /\ entry.tokenBalance.kind = "hex"
  /\ \E i \in DOMAIN entry.tokenBalance.digits : entry.tokenBalance.digits[i] # 0

\* The balance is absent, empty or a hexadecimal number.
Readable(entry) ==
  \/ entry.tokenBalance.kind \in {"undefined", "empty"}
  \/ entry.tokenBalance.kind = "hex" /\ entry.tokenBalance.digits # << >>

\* The upstream call did not give a list of readable balances.
UpstreamFailed(upstream) ==
  \/ upstream.kind \in {"throws", "status", "badJson", "error"}
  \/ /\ upstream.kind = "result"
     /\ \E i \in DOMAIN upstream.tokenBalances : ~Readable(upstream.tokenBalances[i])

ContractOf(entry) == entry.contractAddress

RECURSIVE MapContracts(_)
MapContracts(entries) ==
  IF entries = << >> THEN << >>
  ELSE <<ContractOf(Head(entries))>> \o MapContracts(Tail(entries))

\* C38: a request without a walletAddress (absent or empty) is answered 400
\* with an error; any other is answered 200 with a tokens list, which is
\* the fallback list (USDC, EURC) when the API key is missing or the
\* upstream call fails (it throws, answers with a status that is not ok,
\* with a body that does not parse, with an error member or with a balance
\* that is no number), and otherwise the contract addresses of the entries
\* whose tokenBalance is above zero, in the upstream order.
C38_RouteAnswers ==
  route.served =>
    IF ~route.wallet.present \/ route.wallet.value = ""
    THEN /\ route.response.status = 400
         /\ DOMAIN route.response.body = {"error"}
    ELSE /\ route.response.status = 200
         /\ DOMAIN route.response.body = {"tokens"}
         /\ route.response.body.tokens =
              IF route.key = "" \/ UpstreamFailed(route.upstream) THEN FallbackTokens
              ELSE IF route.upstream.kind = "noResult" THEN << >>
              ELSE MapContracts(SelectSeq(route.upstream.tokenBalances, Positive))

\* C38 witness: with a key set, the upstream answered two readable
\* balances, one of them zero, and the response lists the other contract.
C38_Witness ==
  /\ route.served
  /\ route.key # "" /\ route.wallet.value # ""
  /\ route.upstream.kind = "result"
  /\ Len(route.upstream.tokenBalances) = 2
  /\ ~UpstreamFailed(route.upstream)
  /\ route.response.status = 200
  /\ Len(route.response.body.tokens) = 1

====
